---- MODULE Spec2Model ----
(***************************************************************************)
(* Model of the renderer process of simple-editor: the text analysis      *)
(* (countWords, formatWordCount, parseHeadings, renderMarkdown) and the    *)
(* application state around it (tabs, auto-save, settings).                *)
(*                                                                         *)
(* A JavaScript string is a sequence of characters; a character is a       *)
(* one-character TLA+ string, except the characters that cannot be written *)
(* in a TLA+ string literal, which carry a name ("bt" is the backtick,     *)
(* "U+4E00" the code unit 0x4E00, ...).                                    *)
(***************************************************************************)
EXTENDS Integers, Sequences, FiniteSets, TLC

VARIABLES
    text,          \* the editor content (editor.getValue())
    counts,        \* the record countWords returned for text
    options,       \* the wordCountOptions record handed to formatWordCount
    wordCountText, \* the string formatWordCount returned (the display text)
    markdown,      \* renderMarkdown: the lines of the argument read so far
    result,        \* renderMarkdown: the output lines pushed so far
    inCodeBlock,   \* renderMarkdown: inside a fenced code block
    codeBlockContent, \* renderMarkdown: the buffered lines of the code block
    inList,        \* renderMarkdown: inside a list
    listType,      \* renderMarkdown: "ol", "ul" or "null"
    listItems,     \* renderMarkdown: the pending list item texts
    returned,      \* renderMarkdown: the call has returned
    html,          \* renderMarkdown: the string returned
    renderCalls,   \* the number of renderMarkdown calls that came before
    outlineItems,  \* the headings parseHeadings returned for text
    tabs,          \* the open tabs, in the order of the tab bar
    activeTabId,   \* the id of the active tab, 0 for null
    tabIdCounter,  \* the number of tab ids handed out
    settingsTabId, \* the id of the settings tab, 0 for null
    lastSavedContent, \* tab id -> the content recorded as saved
    editorModel,   \* the id of the tab whose model the editor shows, or 0
    files,         \* the file system: path -> content
    saveFileCalls, \* the save-file invocations that have not returned
    restorePending, \* restoreOpenFiles awaits the list of open files
    openFiles,     \* restoreOpenFiles: the entries still to restore
    seenPaths,     \* restoreOpenFiles: the paths already restored
    autoSaveEnabled, \* auto-save is switched on
    autoSaveInterval, \* the timer id held by autoSaveInterval, 0 for none
    timers,        \* the ids of the interval timers that are running
    startAutoSaveCalls, \* the startAutoSave calls awaiting get-settings
    settingsFile,  \* the settings stored on disk
    form,          \* the values of the settings form
    originalSettings, \* the settings to revert to, Null or <<settings>>
    currentSettings, \* the settings previewed, Null or <<settings>>
    loadSettingsPending, \* loadSettings awaits get-settings
    formLoads,     \* the loadSettingsIntoForm calls awaiting get-settings
    toggleSaves,   \* the toggleAutoSave calls that have not saved yet
    settingsSaves  \* the settings the Save button is writing

countVars == <<text, counts, options, wordCountText>>
renderVars == <<markdown, result, inCodeBlock, codeBlockContent, inList,
                listType, listItems, returned, html, renderCalls>>
tabVars == <<tabs, activeTabId, tabIdCounter, settingsTabId, lastSavedContent,
             editorModel, files, saveFileCalls, restorePending, openFiles,
             seenPaths>>
timerVars == <<autoSaveEnabled, autoSaveInterval, timers, startAutoSaveCalls>>
settingsVars == <<settingsFile, form, originalSettings, currentSettings,
                  loadSettingsPending, formLoads, toggleSaves, settingsSaves>>
appVars == <<tabVars, timerVars, settingsVars>>
vars == <<countVars, renderVars, outlineItems, appVars>>

\* ------------------------------------------------------------------------
\* Bounds
\* ------------------------------------------------------------------------
MaxTextLen == 5
MaxLines == 3
MaxHeadingLines == 3
MaxShortLines == 4
MaxInlineLen == 6
MaxRenderCalls == 1
MaxTotalLen == 4
MaxTabId == 3
MaxAutoSaveTabs == 2
MaxSaveFileCalls == 1
MaxTimers == 2
MaxStartCalls == 2
MaxFormLoads == 2
MaxPending == 1

\* ------------------------------------------------------------------------
\* Characters
\* ------------------------------------------------------------------------
\* a string literal as a sequence of characters
Str(s) == [i \in 1..Len(s) |-> SubSeq(s, i, i)]

BT == "bt"

CJKFirst == 19968
CJKLast == 40959

\* UTF-16 code unit of a character (String.prototype.charCodeAt)
CharCode(c) ==
    CASE c = "\t" -> 9
      [] c = "\n" -> 10
      [] c = "\r" -> 13
      [] c = " " -> 32
      [] c = "&" -> 38
      [] c = "<" -> 60
      [] c = ">" -> 62
      [] c = "a" -> 97
      [] c = "b" -> 98
      [] c = "U+00A0" -> 160
      [] c = "U+3000" -> 12288
      [] c = "U+4DFF" -> 19967
      [] c = "U+4E00" -> 19968
      [] c = "U+9FFF" -> 40959
      [] c = "U+A000" -> 40960
      [] OTHER -> 63

\* the class \s of a JavaScript regular expression, which is also the set
\* of characters String.prototype.trim removes
IsWhitespace(c) ==
    CharCode(c) \in ({9, 10, 11, 12, 13, 32, 160, 5760, 8232, 8233, 8239,
                      8287, 12288, 65279} \cup (8192..8202))

\* the class with its last code unit left out
IsCJKShortRange(c) == CharCode(c) >= CJKFirst /\ CharCode(c) < CJKLast

\* the class [U+4E00-U+9FFF]
IsCJK(c) == CharCode(c) >= CJKFirst /\ CharCode(c) <= CJKLast

\* ------------------------------------------------------------------------
\* String helpers
\* ------------------------------------------------------------------------
RECURSIVE TrimStart(_)
TrimStart(s) ==
    IF s = <<>> THEN <<>>
    ELSE IF IsWhitespace(Head(s)) THEN TrimStart(Tail(s)) ELSE s

RECURSIVE TrimEnd(_)
TrimEnd(s) ==
    IF s = <<>> THEN <<>>
    ELSE IF IsWhitespace(s[Len(s)]) THEN TrimEnd(SubSeq(s, 1, Len(s) - 1))
         ELSE s

\* String.prototype.trim
Trim(s) == TrimEnd(TrimStart(s))

\* text.match(/[U+4E00-U+9FFF]/g): the matches, or "null" when there is none
MatchChinese(s) ==
    LET m == SelectSeq(s, IsCJK) IN IF m = <<>> THEN "null" ELSE m

\* text.replace(/[U+4E00-U+9FFF]/g, ' ')
ReplaceChinese(s) == [i \in 1..Len(s) |-> IF IsCJK(s[i]) THEN " " ELSE s[i]]

\* end of the run of whitespace that starts at i (first index after it)
RECURSIVE WhitespaceRunEnd(_, _)
WhitespaceRunEnd(s, i) ==
    IF i <= Len(s) /\ IsWhitespace(s[i]) THEN WhitespaceRunEnd(s, i + 1) ELSE i

\* the least element of a non-empty set of indices
MinIndex(S) == CHOOSE i \in S : \A j \in S : i <= j

\* s.split(/\s+/): p is the start of the current piece, q the scan position
RECURSIVE SplitWhitespaceFrom(_, _, _)
SplitWhitespaceFrom(s, p, q) ==
    LET found == {i \in q..Len(s) : IsWhitespace(s[i])}
    IN  IF found = {} THEN <<SubSeq(s, p, Len(s))>>
        ELSE LET i == MinIndex(found)
                 e == WhitespaceRunEnd(s, i)
             IN  <<SubSeq(s, p, i - 1)>> \o SplitWhitespaceFrom(s, e, e)

SplitWhitespace(s) == SplitWhitespaceFrom(s, 1, 1)

\* s.split(/\r?\n/)
RECURSIVE SplitLinesFrom(_, _, _)
SplitLinesFrom(s, p, q) ==
    LET found == {i \in q..Len(s) : s[i] = "\n"}
    IN  IF found = {} THEN <<SubSeq(s, p, Len(s))>>
        ELSE LET i == MinIndex(found)
                 start == IF i > q /\ s[i - 1] = "\r" THEN i - 1 ELSE i
             IN  <<SubSeq(s, p, start - 1)>> \o SplitLinesFrom(s, i + 1, i + 1)

SplitLines(s) == SplitLinesFrom(s, 1, 1)

\* the end of the match of /\n\s*\n/ at q (index of its last character),
\* or 0 when the expression does not match at q: \s* is greedy, so the match
\* ends at the last newline of the whitespace run that follows s[q]
BlankLineMatchEnd(s, q) ==
    IF s[q] # "\n" THEN 0
    ELSE LET e == WhitespaceRunEnd(s, q + 1)
             nl == {j \in (q + 1)..(e - 1) : s[j] = "\n"}
         IN  IF nl = {} THEN 0 ELSE CHOOSE j \in nl : \A k \in nl : k <= j

\* s.split(/\n\s*\n/)
RECURSIVE SplitBlankLinesFrom(_, _, _)
SplitBlankLinesFrom(s, p, q) ==
    LET found == {i \in q..Len(s) : BlankLineMatchEnd(s, i) # 0}
    IN  IF found = {} THEN <<SubSeq(s, p, Len(s))>>
        ELSE LET i == MinIndex(found)
                 e == BlankLineMatchEnd(s, i)
             IN  <<SubSeq(s, p, i - 1)>> \o SplitBlankLinesFrom(s, e + 1, e + 1)

SplitBlankLines(s) == SplitBlankLinesFrom(s, 1, 1)

NonEmpty(word) == Len(word) > 0
NonBlank(p) == Len(Trim(p)) > 0

\* ------------------------------------------------------------------------
\* countWords
\* ------------------------------------------------------------------------
\* the test without the trim: !text
IsEmptyText(t) == t = <<>>

\* !text || text.trim().length === 0
IsBlankText(t) == t = <<>> \/ Len(Trim(t)) = 0

BlankCounts ==
    [words |-> 0, characters |-> 0, chineseChars |-> 0,
     englishWords |-> 0, lines |-> 1, paragraphs |-> 0]

chineseChars(t) ==
    LET chineseMatches == MatchChinese(t)
    IN  IF chineseMatches # "null" THEN Len(chineseMatches) ELSE 0

\* the tokens when the ideographs are left in place
englishWordsWithChinese(t) == SelectSeq(SplitWhitespace(t), NonEmpty)

englishWords(t) == SelectSeq(SplitWhitespace(ReplaceChinese(t)), NonEmpty)

\* the total when the empty tokens of the split are counted
totalWordsWithEmptyTokens(t) ==
    chineseChars(t) + Len(SplitWhitespace(ReplaceChinese(t)))

totalWords(t) == chineseChars(t) + Len(englishWords(t))

\* the length of the trimmed text
totalCharactersTrimmed(t) == Len(Trim(t))

totalCharacters(t) == Len(t)

\* the segments without the empty ones
linesNonEmpty(t) == Len(SelectSeq(SplitLines(t), NonEmpty))

lines(t) == Len(SplitLines(t))

\* the blocks without the filter of the blank ones
paragraphsUnfiltered(t) ==
    LET n == Len(SplitBlankLines(t))
    IN  IF n # 0 THEN n ELSE 1

paragraphs(t) ==
    LET n == Len(SelectSeq(SplitBlankLines(t), NonBlank))
    IN  IF n # 0 THEN n ELSE 1

countWords(t) ==
    IF IsBlankText(t)
    THEN BlankCounts
    ELSE [words |-> totalWords(t), characters |-> totalCharacters(t),
          chineseChars |-> chineseChars(t),
          englishWords |-> Len(englishWords(t)),
          lines |-> lines(t), paragraphs |-> paragraphs(t)]

\* ------------------------------------------------------------------------
\* formatWordCount
\* ------------------------------------------------------------------------
\* the display flags; an options record is a function from some of them to
\* BOOLEAN, a flag outside its domain is a property the record lacks
Flags == {"showChineseWordCount", "showEnglishWordCount", "showTotalWordCount",
          "showCharacterCount", "showWordCountBreakdown", "showLineCount",
          "showParagraphCount"}

\* options.flag !== false
NotFalse(o, flag) == ~(flag \in DOMAIN o /\ o[flag] = FALSE)

\* the flag read like the other five: options.flag !== false
OrFalseDefaultTrue(o, flag) == ~(flag \in DOMAIN o /\ o[flag] = FALSE)

\* options.flag || false
OrFalse(o, flag) == flag \in DOMAIN o /\ o[flag] = TRUE

DefaultedOptions(o) ==
    [showChineseWordCount |-> NotFalse(o, "showChineseWordCount"),
     showEnglishWordCount |-> NotFalse(o, "showEnglishWordCount"),
     showTotalWordCount |-> NotFalse(o, "showTotalWordCount"),
     showCharacterCount |-> NotFalse(o, "showCharacterCount"),
     showWordCountBreakdown |-> NotFalse(o, "showWordCountBreakdown"),
     showLineCount |-> OrFalse(o, "showLineCount"),
     showParagraphCount |-> OrFalse(o, "showParagraphCount")]

\* Array.prototype.join on an array of strings
RECURSIVE Join(_, _)
Join(parts, sep) ==
    IF parts = <<>> THEN ""
    ELSE IF Len(parts) = 1 THEN parts[1]
         ELSE parts[1] \o sep \o Join(Tail(parts), sep)

\* the elements pushed when cond holds
PushIf(cond, part) == IF cond THEN <<part>> ELSE <<>>

\* the word parts when the hidden total always uses the short labels
WordPartsShortLabels(c, opts) ==
    IF opts.showTotalWordCount
    THEN IF opts.showWordCountBreakdown
         THEN LET breakdownParts ==
                      PushIf(opts.showChineseWordCount,
                             "Chinese: " \o ToString(c.chineseChars))
                      \o PushIf(opts.showEnglishWordCount,
                                "English: " \o ToString(c.englishWords))
              IN  IF Len(breakdownParts) > 0
                  THEN <<"Words: " \o ToString(c.words) \o " ("
                         \o Join(breakdownParts, ", ") \o ")">>
                  ELSE <<"Words: " \o ToString(c.words)>>
         ELSE <<"Words: " \o ToString(c.words)>>
    ELSE PushIf(opts.showChineseWordCount,
                "Chinese: " \o ToString(c.chineseChars))
         \o PushIf(opts.showEnglishWordCount,
                   "English: " \o ToString(c.englishWords))

\* the word parts when the breakdown replaces the total instead of
\* following it
WordPartsBreakdownOnly(c, opts) ==
    IF opts.showTotalWordCount /\ ~opts.showWordCountBreakdown
    THEN <<"Words: " \o ToString(c.words)>>
    ELSE IF opts.showWordCountBreakdown
         THEN PushIf(opts.showChineseWordCount,
                     "Chinese: " \o ToString(c.chineseChars))
              \o PushIf(opts.showEnglishWordCount,
                        "English: " \o ToString(c.englishWords))
         ELSE PushIf(opts.showChineseWordCount,
                     "Chinese Words: " \o ToString(c.chineseChars))
              \o PushIf(opts.showEnglishWordCount,
                        "English Words: " \o ToString(c.englishWords))

\* the word parts when an empty breakdown is still parenthesised
WordPartsEmptyBreakdown(c, opts) ==
    IF opts.showTotalWordCount
    THEN IF opts.showWordCountBreakdown
         THEN LET breakdownParts ==
                      PushIf(opts.showChineseWordCount,
                             "Chinese: " \o ToString(c.chineseChars))
                      \o PushIf(opts.showEnglishWordCount,
                                "English: " \o ToString(c.englishWords))
              IN  <<"Words: " \o ToString(c.words) \o " ("
                    \o Join(breakdownParts, ", ") \o ")">>
         ELSE <<"Words: " \o ToString(c.words)>>
    ELSE IF opts.showWordCountBreakdown
         THEN PushIf(opts.showChineseWordCount,
                     "Chinese: " \o ToString(c.chineseChars))
              \o PushIf(opts.showEnglishWordCount,
                        "English: " \o ToString(c.englishWords))
         ELSE PushIf(opts.showChineseWordCount,
                     "Chinese Words: " \o ToString(c.chineseChars))
              \o PushIf(opts.showEnglishWordCount,
                        "English Words: " \o ToString(c.englishWords))

\* the parts pushed for the word counts
WordParts(c, opts) ==
    IF opts.showTotalWordCount
    THEN IF opts.showWordCountBreakdown
         THEN LET breakdownParts ==
                      PushIf(opts.showChineseWordCount,
                             "Chinese: " \o ToString(c.chineseChars))
                      \o PushIf(opts.showEnglishWordCount,
                                "English: " \o ToString(c.englishWords))
              IN  IF Len(breakdownParts) > 0
                  THEN <<"Words: " \o ToString(c.words) \o " ("
                         \o Join(breakdownParts, ", ") \o ")">>
                  ELSE <<"Words: " \o ToString(c.words)>>
         ELSE <<"Words: " \o ToString(c.words)>>
    ELSE IF opts.showWordCountBreakdown
         THEN PushIf(opts.showChineseWordCount,
                     "Chinese: " \o ToString(c.chineseChars))
              \o PushIf(opts.showEnglishWordCount,
                        "English: " \o ToString(c.englishWords))
         ELSE PushIf(opts.showChineseWordCount,
                     "Chinese Words: " \o ToString(c.chineseChars))
              \o PushIf(opts.showEnglishWordCount,
                        "English Words: " \o ToString(c.englishWords))

\* the other parts with the line count pushed before the character count
OtherPartsLinesFirst(c, opts) ==
    PushIf(opts.showLineCount, "Lines: " \o ToString(c.lines))
    \o PushIf(opts.showCharacterCount, "Characters: " \o ToString(c.characters))
    \o PushIf(opts.showParagraphCount, "Paragraphs: " \o ToString(c.paragraphs))

\* the parts pushed for the character, line and paragraph counts
OtherParts(c, opts) ==
    PushIf(opts.showCharacterCount, "Characters: " \o ToString(c.characters))
    \o PushIf(opts.showLineCount, "Lines: " \o ToString(c.lines))
    \o PushIf(opts.showParagraphCount, "Paragraphs: " \o ToString(c.paragraphs))

\* the result without the text for an empty list of parts
formatWordCountJoinOnly(c, o) ==
    LET opts == DefaultedOptions(o)
    IN  Join(WordParts(c, opts) \o OtherParts(c, opts), " | ")

formatWordCount(c, o) ==
    LET opts == DefaultedOptions(o)
        parts == WordParts(c, opts) \o OtherParts(c, opts)
    IN  IF Len(parts) > 0 THEN Join(parts, " | ") ELSE "No statistics"

\* ------------------------------------------------------------------------
\* renderMarkdown
\* ------------------------------------------------------------------------
\* the concatenation of the strings of a sequence
RECURSIVE Concat(_)
Concat(seq) == IF seq = <<>> THEN <<>> ELSE Head(seq) \o Concat(Tail(seq))

\* Array.prototype.join on an array of character sequences
RECURSIVE JoinChars(_, _)
JoinChars(seq, sep) ==
    IF seq = <<>> THEN <<>>
    ELSE IF Len(seq) = 1 THEN seq[1]
         ELSE seq[1] \o sep \o JoinChars(Tail(seq), sep)

\* the serialisation of one character of a text node by innerHTML
EscapeChar(c) ==
    CASE c = "&" -> Str("&amp;")
      [] c = "<" -> Str("&lt;")
      [] c = ">" -> Str("&gt;")
      [] c = "U+00A0" -> Str("&nbsp;")
      [] OTHER -> <<c>>

escapeHtml(t) == Concat([i \in 1..Len(t) |-> EscapeChar(t[i])])

\* the literal lit occurs in s at index i
MatchesAt(s, i, lit) ==
    /\ i + Len(lit) - 1 <= Len(s)
    /\ SubSeq(s, i, i + Len(lit) - 1) = lit

\* end of the run of characters other than stop that starts at i
RECURSIVE RunEnd(_, _, _)
RunEnd(s, i, stop) ==
    IF i <= Len(s) /\ s[i] # stop THEN RunEnd(s, i + 1, stop) ELSE i

\* s.replace(/open([^stop]+)close/g, 'pre$1post') from index i on, where
\* close begins with stop: the greedy run ends at the first stop character
RECURSIVE ReplaceDelimitedFrom(_, _, _, _, _, _, _)
ReplaceDelimitedFrom(s, i, open, stop, close, pre, post) ==
    IF i > Len(s) THEN <<>>
    ELSE LET b == i + Len(open)
             e == RunEnd(s, b, stop)
         IN  IF MatchesAt(s, i, open) /\ e > b /\ MatchesAt(s, e, close)
             THEN pre \o SubSeq(s, b, e - 1) \o post
                  \o ReplaceDelimitedFrom(s, e + Len(close), open, stop,
                                          close, pre, post)
             ELSE <<s[i]>>
                  \o ReplaceDelimitedFrom(s, i + 1, open, stop, close, pre, post)

\* the replacement where an opening marker at the start of s needs no
\* closing marker
ReplaceDelimitedUnclosed(s, open, stop, close, pre, post) ==
    IF Len(s) > Len(open) /\ MatchesAt(s, 1, open)
    THEN pre \o SubSeq(s, Len(open) + 1, Len(s)) \o post
    ELSE ReplaceDelimitedFrom(s, 1, open, stop, close, pre, post)

ReplaceDelimited(s, open, stop, close, pre, post) ==
    ReplaceDelimitedFrom(s, 1, open, stop, close, pre, post)

\* s.replace(/\[([^\]]+)\]\(([^)]+)\)/g, '<a href="$2">$1</a>') from i on
RECURSIVE ReplaceLinksFrom(_, _)
ReplaceLinksFrom(s, i) ==
    IF i > Len(s) THEN <<>>
    ELSE LET e1 == RunEnd(s, i + 1, "]")
             e2 == RunEnd(s, e1 + 2, ")")
         IN  IF /\ s[i] = "["
                /\ e1 > i + 1
                /\ MatchesAt(s, e1, Str("]("))
                /\ e2 > e1 + 2
                /\ MatchesAt(s, e2, Str(")"))
             THEN Str("<a href=\"") \o SubSeq(s, e1 + 2, e2 - 1) \o Str("\">")
                  \o SubSeq(s, i + 1, e1 - 1) \o Str("</a>")
                  \o ReplaceLinksFrom(s, e2 + 1)
             ELSE <<s[i]>> \o ReplaceLinksFrom(s, i + 1)

ReplaceLinks(s) == ReplaceLinksFrom(s, 1)

\* processInline without the escaping of its argument
processInlineUnescaped(t, inCB) ==
    IF inCB THEN escapeHtml(t)
    ELSE LET h0 == t
             h1 == ReplaceDelimited(h0, <<BT>>, BT, <<BT>>,
                                    Str("<code>"), Str("</code>"))
             h2 == ReplaceDelimited(h1, Str("**"), "*", Str("**"),
                                    Str("<strong>"), Str("</strong>"))
             h3 == ReplaceDelimited(h2, Str("__"), "_", Str("__"),
                                    Str("<strong>"), Str("</strong>"))
             h4 == ReplaceDelimited(h3, Str("*"), "*", Str("*"),
                                    Str("<em>"), Str("</em>"))
             h5 == ReplaceDelimited(h4, Str("_"), "_", Str("_"),
                                    Str("<em>"), Str("</em>"))
             h6 == ReplaceDelimited(h5, Str("<u>"), "<", Str("</u>"),
                                    Str("<u>"), Str("</u>"))
         IN  ReplaceLinks(h6)

\* processInline where the italic substitutions run before the bold ones
processInlineItalicFirst(t, inCB) ==
    IF inCB THEN escapeHtml(t)
    ELSE LET h0 == escapeHtml(t)
             h1 == ReplaceDelimited(h0, <<BT>>, BT, <<BT>>,
                                    Str("<code>"), Str("</code>"))
             h2 == ReplaceDelimited(h1, Str("*"), "*", Str("*"),
                                    Str("<em>"), Str("</em>"))
             h3 == ReplaceDelimited(h2, Str("_"), "_", Str("_"),
                                    Str("<em>"), Str("</em>"))
             h4 == ReplaceDelimited(h3, Str("**"), "*", Str("**"),
                                    Str("<strong>"), Str("</strong>"))
             h5 == ReplaceDelimited(h4, Str("__"), "_", Str("__"),
                                    Str("<strong>"), Str("</strong>"))
             h6 == ReplaceDelimited(h5, Str("<u>"), "<", Str("</u>"),
                                    Str("<u>"), Str("</u>"))
         IN  ReplaceLinks(h6)

\* processInline(text), called while inCodeBlock = inCB
processInline(t, inCB) ==
    IF inCB THEN escapeHtml(t)
    ELSE LET h0 == escapeHtml(t)
             h1 == ReplaceDelimited(h0, <<BT>>, BT, <<BT>>,
                                    Str("<code>"), Str("</code>"))
             h2 == ReplaceDelimited(h1, Str("**"), "*", Str("**"),
                                    Str("<strong>"), Str("</strong>"))
             h3 == ReplaceDelimited(h2, Str("__"), "_", Str("__"),
                                    Str("<strong>"), Str("</strong>"))
             h4 == ReplaceDelimited(h3, Str("*"), "*", Str("*"),
                                    Str("<em>"), Str("</em>"))
             h5 == ReplaceDelimited(h4, Str("_"), "_", Str("_"),
                                    Str("<em>"), Str("</em>"))
             h6 == ReplaceDelimited(h5, Str("<u>"), "<", Str("</u>"),
                                    Str("<u>"), Str("</u>"))
         IN  ReplaceLinks(h6)

\* the local variables of a renderMarkdown call, as a record
RenderState ==
    [result |-> result, inCodeBlock |-> inCodeBlock,
     codeBlockContent |-> codeBlockContent, inList |-> inList,
     listType |-> listType, listItems |-> listItems]

closeList(r) ==
    LET listTag == IF r.listType = "ol" THEN "ol" ELSE "ul"
        items == [i \in 1..Len(r.listItems) |->
                     Str("  <li>")
                     \o processInline(r.listItems[i], r.inCodeBlock)
                     \o Str("</li>")]
        flushed == IF r.inList /\ Len(r.listItems) > 0
                   THEN [r EXCEPT !.result =
                             r.result \o <<Str("<" \o listTag \o ">")>>
                             \o items \o <<Str("</" \o listTag \o ">")>>,
                         !.listItems = <<>>]
                   ELSE r
    IN  [flushed EXCEPT !.inList = FALSE, !.listType = "null"]

\* closeCodeBlock where the buffered lines go through the inline transform
closeCodeBlockInline(r) ==
    LET flushed == IF r.inCodeBlock /\ Len(r.codeBlockContent) > 0
                   THEN [r EXCEPT !.result =
                             Append(r.result,
                                    Str("<pre><code>")
                                    \o processInline(JoinChars(r.codeBlockContent,
                                                               <<"\n">>), FALSE)
                                    \o Str("</code></pre>")),
                         !.codeBlockContent = <<>>]
                   ELSE r
    IN  [flushed EXCEPT !.inCodeBlock = FALSE]

closeCodeBlock(r) ==
    LET flushed == IF r.inCodeBlock /\ Len(r.codeBlockContent) > 0
                   THEN [r EXCEPT !.result =
                             Append(r.result,
                                    Str("<pre><code>")
                                    \o escapeHtml(JoinChars(r.codeBlockContent,
                                                            <<"\n">>))
                                    \o Str("</code></pre>")),
                         !.codeBlockContent = <<>>]
                   ELSE r
    IN  [flushed EXCEPT !.inCodeBlock = FALSE]

\* the result of a match that failed; a match that succeeded is a
\* one-element sequence
Null == <<>>

\* the character classes \d and the complement of .
IsDigit(c) == c \in {"0", "1", "2", "3", "4", "5", "6", "7", "8", "9"}
IsLineTerminator(c) == c \in {"\n", "\r", "U+2028", "U+2029"}

\* s matches /^.*$/
IsDotStar(s) == \A i \in DOMAIN s : ~IsLineTerminator(s[i])

\* end of the run of '#' that starts at i
RECURSIVE HashRunEnd(_, _)
HashRunEnd(s, i) ==
    IF i <= Len(s) /\ s[i] = "#" THEN HashRunEnd(s, i + 1) ELSE i

\* end of the run of digits that starts at i
RECURSIVE DigitRunEnd(_, _)
DigitRunEnd(s, i) ==
    IF i <= Len(s) /\ IsDigit(s[i]) THEN DigitRunEnd(s, i + 1) ELSE i

\* trimmed.startsWith('```')
IsFence(trimmed) == MatchesAt(trimmed, 1, <<BT, BT, BT>>)

\* trimmed.match(/^#{1,6}\s/)
IsHeading(trimmed) ==
    LET n == HashRunEnd(trimmed, 1) - 1
    IN  n >= 1 /\ n <= 6 /\ n < Len(trimmed) /\ IsWhitespace(trimmed[n + 1])

\* trimmed.match(/^(#{1,6})\s+(.*)$/) of a line that passed IsHeading:
\* Null or the one-element sequence of the record of the two groups
HeadingMatch(trimmed) ==
    LET n == HashRunEnd(trimmed, 1) - 1
        rest == SubSeq(trimmed, WhitespaceRunEnd(trimmed, n + 1), Len(trimmed))
    IN  IF IsDotStar(rest) THEN <<[level |-> n, text |-> rest]>> ELSE Null

\* trimmed.match(/^(---|\*\*\*)$/)
IsRule(trimmed) == trimmed = Str("---") \/ trimmed = Str("***")

\* trimmed.startsWith('>')
IsQuote(trimmed) == MatchesAt(trimmed, 1, Str(">"))

\* trimmed.match(/^(\d+)\.\s+(.*)$/): Null or <<the text of the item>>
NumberedMatch(trimmed) ==
    LET d == DigitRunEnd(trimmed, 1)
        w == WhitespaceRunEnd(trimmed, d + 1)
        rest == SubSeq(trimmed, w, Len(trimmed))
    IN  IF /\ d > 1
           /\ MatchesAt(trimmed, d, Str("."))
           /\ w > d + 1
           /\ IsDotStar(rest)
        THEN <<rest>> ELSE Null

\* trimmed.match(/^[-*]\s+(.*)$/): Null or <<the text of the item>>
BulletMatch(trimmed) ==
    LET w == WhitespaceRunEnd(trimmed, 2)
        rest == SubSeq(trimmed, w, Len(trimmed))
    IN  IF /\ Len(trimmed) >= 1
           /\ trimmed[1] \in {"-", "*"}
           /\ w > 2
           /\ IsDotStar(rest)
        THEN <<rest>> ELSE Null

IsListItem(trimmed) ==
    NumberedMatch(trimmed) # Null \/ BulletMatch(trimmed) # Null

\* ------------------------------------------------------------------------
\* parseHeadings
\* ------------------------------------------------------------------------
NumberedMaxLength == 100

\* content.split('\n')
RECURSIVE SplitNewlineFrom(_, _, _)
SplitNewlineFrom(s, p, q) ==
    LET found == {i \in q..Len(s) : s[i] = "\n"}
    IN  IF found = {} THEN <<SubSeq(s, p, Len(s))>>
        ELSE LET i == MinIndex(found)
             IN  <<SubSeq(s, p, i - 1)>> \o SplitNewlineFrom(s, i + 1, i + 1)

SplitNewline(s) == SplitNewlineFrom(s, 1, 1)

\* the class [A-Z]
IsUpper(c) ==
    c \in {"A", "B", "C", "D", "E", "F", "G", "H", "I", "J", "K", "L", "M",
           "N", "O", "P", "Q", "R", "S", "T", "U", "V", "W", "X", "Y", "Z"}

\* the group (.+) of a match of /\s+(.+)$/ at index p of line, or Null:
\* the greedy \s+ gives characters back until the rest is not empty and
\* holds no line terminator
RestMatch(line, p) ==
    LET w == WhitespaceRunEnd(line, p)
        last == IF w <= Len(line) THEN w ELSE Len(line)
        starts == {j \in (p + 1)..last : IsDotStar(SubSeq(line, j, Len(line)))}
    IN  IF starts = {} THEN Null
        ELSE LET j == CHOOSE k \in starts : \A m \in starts : m <= k
             IN  <<SubSeq(line, j, Len(line))>>

\* line.match(/^(#{1,6})\s+(.+)$/): Null or the record of the two groups
MarkdownMatch(line) ==
    LET n == HashRunEnd(line, 1) - 1
        rest == RestMatch(line, n + 1)
    IN  IF n >= 1 /\ n <= 6 /\ rest # Null
        THEN <<[hashes |-> n, rest |-> rest[1]]>>
        ELSE Null

\* line.match(/^=+$/) and line.match(/^-+$/)
IsUnderline(line, c) == line # <<>> /\ \A i \in DOMAIN line : line[i] = c

\* line.match(/^(\d+|[A-Z])\.\s+(.+)$/) && line.length < 100: Null or the
\* second group
HeadingNumberedMatch(line) ==
    LET d == DigitRunEnd(line, 1)
        p == IF d > 1 THEN d
             ELSE IF line # <<>> /\ IsUpper(line[1]) THEN 2 ELSE 0
    IN  IF p # 0 /\ MatchesAt(line, p, Str(".")) /\ Len(line) < NumberedMaxLength
        THEN RestMatch(line, p + 1)
        ELSE Null

\* the callback of forEach on the line 1-based number lineNum, where the
\* underline headings are reported one line too low
HeadingOfLineUnderlineNumber(ls, lineNum) ==
    LET line == ls[lineNum]
        markdownMatch == MarkdownMatch(line)
        prevLine == IF lineNum > 1 THEN Trim(ls[lineNum - 1]) ELSE <<>>
        numberedMatch == HeadingNumberedMatch(line)
    IN  IF markdownMatch # Null
        THEN <<[level |-> markdownMatch[1].hashes,
                text |-> Trim(markdownMatch[1].rest), line |-> lineNum]>>
        ELSE IF lineNum > 1 /\ Len(prevLine) > 0 /\ IsUnderline(line, "=")
        THEN <<[level |-> 1, text |-> prevLine, line |-> lineNum]>>
        ELSE IF lineNum > 1 /\ Len(prevLine) > 0 /\ IsUnderline(line, "-")
        THEN <<[level |-> 2, text |-> prevLine, line |-> lineNum]>>
        ELSE IF numberedMatch # Null
        THEN <<[level |-> 3, text |-> Trim(numberedMatch[1]), line |-> lineNum]>>
        ELSE <<>>

\* the callback of forEach on the line 1-based number lineNum, where every
\* heading is reported with the index of forEach
HeadingOfLineZeroBased(ls, lineNum) ==
    LET line == ls[lineNum]
        index == lineNum - 1
        markdownMatch == MarkdownMatch(line)
        prevLine == IF index > 0 THEN Trim(ls[index]) ELSE <<>>
        numberedMatch == HeadingNumberedMatch(line)
    IN  IF markdownMatch # Null
        THEN <<[level |-> markdownMatch[1].hashes,
                text |-> Trim(markdownMatch[1].rest), line |-> index]>>
        ELSE IF index > 0 /\ Len(prevLine) > 0 /\ IsUnderline(line, "=")
        THEN <<[level |-> 1, text |-> prevLine, line |-> index]>>
        ELSE IF index > 0 /\ Len(prevLine) > 0 /\ IsUnderline(line, "-")
        THEN <<[level |-> 2, text |-> prevLine, line |-> index]>>
        ELSE IF numberedMatch # Null
        THEN <<[level |-> 3, text |-> Trim(numberedMatch[1]), line |-> index]>>
        ELSE <<>>

\* the callback of forEach on the line of index lineNum - 1: the headings
\* it pushes
HeadingOfLine(ls, lineNum) ==
    LET line == ls[lineNum]
        index == lineNum - 1
        markdownMatch == MarkdownMatch(line)
        prevLine == IF index > 0 THEN Trim(ls[index]) ELSE <<>>
        numberedMatch == HeadingNumberedMatch(line)
    IN  IF markdownMatch # Null
        THEN <<[level |-> markdownMatch[1].hashes,
                text |-> Trim(markdownMatch[1].rest), line |-> lineNum]>>
        ELSE IF index > 0 /\ Len(prevLine) > 0 /\ IsUnderline(line, "=")
        THEN <<[level |-> 1, text |-> prevLine, line |-> index]>>
        ELSE IF index > 0 /\ Len(prevLine) > 0 /\ IsUnderline(line, "-")
        THEN <<[level |-> 2, text |-> prevLine, line |-> index]>>
        ELSE IF numberedMatch # Null
        THEN <<[level |-> 3, text |-> Trim(numberedMatch[1]), line |-> lineNum]>>
        ELSE <<>>

\* the headings are collected from the last line to the first
parseHeadingsBackwards(content) ==
    LET ls == SplitNewline(content)
    IN  Concat([k \in 1..Len(ls) |-> HeadingOfLine(ls, Len(ls) + 1 - k)])

parseHeadings(content) ==
    LET ls == SplitNewline(content)
    IN  Concat([lineNum \in 1..Len(ls) |-> HeadingOfLine(ls, lineNum)])

\* ------------------------------------------------------------------------
\* Specification of countWords: the text is typed into the editor
\* ------------------------------------------------------------------------
\* the characters typed into the editor
CountAlphabet == {"a", " ", "\n", "\r", "U+4E00", "U+9FFF", "U+A000", "U+3000"}

\* the settings on disk have no wordCountOptions: settings.wordCountOptions || {}
NoOptions == <<>>

InitCount ==
    /\ text = <<>>
    /\ counts = countWords(<<>>)
    /\ options = NoOptions
    /\ wordCountText = formatWordCount(counts, options)
    /\ markdown = <<>>
    /\ result = <<>>
    /\ inCodeBlock = FALSE
    /\ codeBlockContent = <<>>
    /\ inList = FALSE
    /\ listType = "null"
    /\ listItems = <<>>
    /\ returned = FALSE
    /\ html = <<>>
    /\ renderCalls = 0
    /\ outlineItems = <<>>
    /\ tabs = <<>>
    /\ activeTabId = 0
    /\ tabIdCounter = 0
    /\ settingsTabId = 0
    /\ lastSavedContent = <<>>
    /\ editorModel = 0
    /\ files = [path \in {"a.txt", "b.txt"} |-> <<>>]
    /\ saveFileCalls = <<>>
    /\ restorePending = TRUE
    /\ openFiles = <<>>
    /\ seenPaths = {}
    /\ autoSaveEnabled = TRUE
    /\ autoSaveInterval = 0
    /\ timers = {}
    /\ startAutoSaveCalls = 1
    /\ settingsFile = [autoSave |-> TRUE]
    /\ form = [autoSave |-> TRUE]
    /\ originalSettings = <<>>
    /\ currentSettings = <<>>
    /\ loadSettingsPending = TRUE
    /\ formLoads = 0
    /\ toggleSaves = 0
    /\ settingsSaves = <<>>

\* editor.onDidChangeModelContent -> updateWordCount, updateOutline
TypeChar(c) ==
    /\ Len(text) < MaxTextLen
    /\ text' = Append(text, c)
    /\ counts' = countWords(text')
    /\ wordCountText' = formatWordCount(counts', options)
    /\ outlineItems' = parseHeadings(text')
    /\ UNCHANGED <<options, renderVars, appVars>>

NextCount == \E c \in CountAlphabet : TypeChar(c)

SpecCount == InitCount /\ [][NextCount]_vars

\* ------------------------------------------------------------------------
\* Specification of formatWordCount: the content and the options change
\* ------------------------------------------------------------------------
\* the contents of the documents opened
FormatTexts ==
    { <<>>,
      <<"U+4E00", "U+9FFF", " ", "a">>,
      <<"a", " ", "a", "\n", "\n", "a", " ", "a", " ", "a", "a", "a">> }

\* the options record with flag set to v
WithFlag(o, flag, v) ==
    [f \in DOMAIN o \cup {flag} |-> IF f = flag THEN v ELSE o[f]]

\* the options record without flag
WithoutFlag(o, flag) == [f \in DOMAIN o \ {flag} |-> o[f]]

\* getSettingsFromForm().wordCountOptions after the checkbox of flag is
\* clicked: loadFormValues checked the boxes from o, every flag is present
FormOptions(o, flag) ==
    [f \in Flags |-> IF f = flag THEN ~DefaultedOptions(o)[f]
                     ELSE DefaultedOptions(o)[f]]

InitFormat == InitCount

\* the content of the editor is replaced: updateWordCount, updateOutline
UpdateWordCountContent(t) ==
    /\ text' = t
    /\ counts' = countWords(t)
    /\ wordCountText' = formatWordCount(counts', options)
    /\ outlineItems' = parseHeadings(text')
    /\ UNCHANGED <<options, renderVars, appVars>>

\* handleSettingChange: updateWordCount previews the options of the form
UpdateWordCountPreview(flag) ==
    /\ options' = FormOptions(options, flag)
    /\ wordCountText' = formatWordCount(counts, options')
    /\ UNCHANGED <<text, counts, renderVars, appVars, outlineItems>>

\* updateWordCount with the wordCountOptions o of get-settings
UpdateWordCountFromDisk(o) ==
    /\ options' = o
    /\ wordCountText' = formatWordCount(counts, o)
    /\ UNCHANGED <<text, counts, renderVars, appVars, outlineItems>>

\* the settings file changes by one flag between two reads
NextFormat ==
    \/ \E t \in FormatTexts : UpdateWordCountContent(t)
    \/ \E flag \in Flags : UpdateWordCountPreview(flag)
    \/ \E flag \in Flags, v \in BOOLEAN :
           UpdateWordCountFromDisk(WithFlag(options, flag, v))
    \/ \E flag \in Flags : UpdateWordCountFromDisk(WithoutFlag(options, flag))

SpecFormat == InitFormat /\ [][NextFormat]_vars

\* ------------------------------------------------------------------------
\* Specification of parseHeadings: the document grows line by line
\* ------------------------------------------------------------------------
\* a string of n characters c
Repeat(c, n) == [i \in 1..n |-> c]

\* the lines the documents are made of
HeadingLines ==
    { Str("# H1"),
      Str("###### six "),
      Str("####### seven"),
      Str("#nospace"),
      Str("#  "),
      Str("## a\r"),
      Str("Title"),
      Str(" "),
      Str("====="),
      Str("---"),
      Str("1. Intro"),
      Str("A.  Part "),
      Str("AB. x"),
      Str("12.x"),
      Str("2. b\r"),
      Str("3. ") \o Repeat("x", NumberedMaxLength - 4),
      Str("4. ") \o Repeat("x", NumberedMaxLength - 3) }

InitHeadings == InitCount

\* editor.onDidChangeModelContent after a line is added to the document
AppendLine(line) ==
    /\ text = <<>> \/ Len(SplitNewline(text)) < MaxHeadingLines
    /\ text' = IF text = <<>> THEN line ELSE text \o <<"\n">> \o line
    /\ counts' = countWords(text')
    /\ wordCountText' = formatWordCount(counts', options)
    /\ outlineItems' = parseHeadings(text')
    /\ UNCHANGED <<options, renderVars, appVars>>

NextHeadings == \E line \in HeadingLines : AppendLine(line)

SpecHeadings == InitHeadings /\ [][NextHeadings]_vars

\* ------------------------------------------------------------------------
\* Specification of renderMarkdown: one action per branch of the line loop
\* ------------------------------------------------------------------------
\* the lines the documents are made of
RenderLines ==
    { <<BT, BT, BT>>,
      Str("  ") \o <<BT, BT, BT>> \o Str("js"),
      Str("# a<b"),
      Str("- x & y"),
      Str("* z"),
      Str("1. p>q"),
      Str("> <u>t</u>"),
      Str("---"),
      <<>>,
      Str("a <b>c</b> &amp; d"),
      Str("**s** _e_ ") \o <<BT>> \o Str("c<d") \o <<BT>>,
      Str("[l](u\">x)"),
      Str("[a](b_c_d) &_e_"),
      Str("<script>x</script>") }

\* the lines of the longer documents
ShortLines ==
    { <<BT, BT, BT>>,
      Str("# a<b"),
      Str("- x & y"),
      Str("> <u>t</u>"),
      Str("---"),
      <<>>,
      Str("**s** _e_ ") \o <<BT>> \o Str("c<d") \o <<BT>> }

\* the arguments of renderMarkdown: at most MaxLines lines of RenderLines
\* or at most MaxShortLines lines of ShortLines
MayRead(line) ==
    \/ Len(markdown) < MaxLines
    \/ /\ Len(markdown) < MaxShortLines
       /\ line \in ShortLines
       /\ \A i \in DOMAIN markdown : markdown[i] \in ShortLines

InitRender == InitCount

\* the assignment of the local variables
SetRender(r) ==
    /\ result' = r.result
    /\ inCodeBlock' = r.inCodeBlock
    /\ codeBlockContent' = r.codeBlockContent
    /\ inList' = r.inList
    /\ listType' = r.listType
    /\ listItems' = r.listItems

\* the loop reads one more line of the argument
ReadLine(line) ==
    /\ ~returned
    /\ MayRead(line)
    /\ markdown' = Append(markdown, line)
    /\ UNCHANGED <<countVars, appVars, outlineItems, returned, html,
                   renderCalls>>

\* if (!markdown) return ''
RenderEmpty ==
    /\ ~returned
    /\ markdown = <<>>
    /\ markdown' = << <<>> >>
    /\ returned' = TRUE
    /\ html' = <<>>
    /\ UNCHANGED <<countVars, appVars, outlineItems, renderCalls, result,
                   inCodeBlock, codeBlockContent, inList, listType,
                   listItems>>

\* a line of a code fence
RenderFence(line) ==
    /\ ReadLine(line)
    /\ IsFence(Trim(line))
    /\ LET r == closeCodeBlock(closeList(RenderState))
       IN  SetRender([r EXCEPT !.inCodeBlock = ~r.inCodeBlock])

\* a line inside a code block
RenderCodeLine(line) ==
    /\ ReadLine(line)
    /\ ~IsFence(Trim(line))
    /\ inCodeBlock
    /\ codeBlockContent' = Append(codeBlockContent, line)
    /\ UNCHANGED <<result, inCodeBlock, inList, listType, listItems>>

\* the line is outside a code block and is no fence
IsMarkdownLine(line) == ~IsFence(Trim(line)) /\ ~inCodeBlock

RenderHeading(line) ==
    /\ ReadLine(line)
    /\ IsMarkdownLine(line)
    /\ IsHeading(Trim(line))
    /\ LET r == closeList(RenderState)
           match == HeadingMatch(Trim(line))
           tag == "h" \o ToString(match[1].level)
       IN  IF match # Null
           THEN SetRender([r EXCEPT !.result =
                    Append(r.result,
                           Str("<" \o tag \o ">")
                           \o processInline(match[1].text, r.inCodeBlock)
                           \o Str("</" \o tag \o ">"))])
           ELSE SetRender(r)

RenderRule(line) ==
    /\ ReadLine(line)
    /\ IsMarkdownLine(line)
    /\ ~IsHeading(Trim(line))
    /\ IsRule(Trim(line))
    /\ LET r == closeList(RenderState)
       IN  SetRender([r EXCEPT !.result = Append(r.result, Str("<hr>"))])

RenderBlockquote(line) ==
    /\ ReadLine(line)
    /\ IsMarkdownLine(line)
    /\ ~IsHeading(Trim(line))
    /\ ~IsRule(Trim(line))
    /\ IsQuote(Trim(line))
    /\ LET r == closeList(RenderState)
           t == Trim(SubSeq(Trim(line), 2, Len(Trim(line))))
       IN  SetRender([r EXCEPT !.result =
               Append(r.result,
                      Str("<blockquote>") \o processInline(t, r.inCodeBlock)
                      \o Str("</blockquote>"))])

\* the line is none of heading, rule and blockquote
IsPlainLine(line) ==
    /\ IsMarkdownLine(line)
    /\ ~IsHeading(Trim(line))
    /\ ~IsRule(Trim(line))
    /\ ~IsQuote(Trim(line))

RenderListItem(line) ==
    /\ ReadLine(line)
    /\ IsPlainLine(line)
    /\ IsListItem(Trim(line))
    /\ LET numberedMatch == NumberedMatch(Trim(line))
           itemText == IF numberedMatch # Null THEN numberedMatch[1]
                       ELSE BulletMatch(Trim(line))[1]
           currentListType == IF numberedMatch # Null THEN "ol" ELSE "ul"
           r == IF ~inList \/ listType # currentListType
                THEN [closeList(RenderState) EXCEPT
                         !.inList = TRUE, !.listType = currentListType]
                ELSE RenderState
       IN  SetRender([r EXCEPT !.listItems = Append(r.listItems, itemText)])

\* a regular paragraph or an empty line
RenderParagraph(line) ==
    /\ ReadLine(line)
    /\ IsPlainLine(line)
    /\ ~IsListItem(Trim(line))
    /\ LET r == closeList(RenderState)
       IN  IF Trim(line) # <<>>
           THEN SetRender([r EXCEPT !.result =
                    Append(r.result,
                           Str("<p>") \o processInline(Trim(line), r.inCodeBlock)
                           \o Str("</p>"))])
           ELSE SetRender([r EXCEPT !.result = Append(r.result, <<>>)])

\* the end of the argument where the open code block is not closed
RenderReturnOpenCode ==
    /\ ~returned
    /\ Len(markdown) >= 1
    /\ markdown # << <<>> >>
    /\ LET r == closeList(RenderState)
       IN  /\ SetRender(r)
           /\ html' = JoinChars(r.result, <<"\n">>)
    /\ returned' = TRUE
    /\ UNCHANGED <<countVars, appVars, outlineItems, markdown, renderCalls>>

\* the end of the argument: close any open blocks and return
RenderReturn ==
    /\ ~returned
    /\ Len(markdown) >= 1
    /\ markdown # << <<>> >>
    /\ LET r == closeCodeBlock(closeList(RenderState))
       IN  /\ SetRender(r)
           /\ html' = JoinChars(r.result, <<"\n">>)
    /\ returned' = TRUE
    /\ UNCHANGED <<countVars, appVars, outlineItems, markdown, renderCalls>>

NextRender ==
    \/ RenderEmpty
    \/ \E line \in RenderLines : RenderFence(line)
    \/ \E line \in RenderLines : RenderCodeLine(line)
    \/ \E line \in RenderLines : RenderHeading(line)
    \/ \E line \in RenderLines : RenderRule(line)
    \/ \E line \in RenderLines : RenderBlockquote(line)
    \/ \E line \in RenderLines : RenderListItem(line)
    \/ \E line \in RenderLines : RenderParagraph(line)
    \/ RenderReturn

SpecRender == InitRender /\ [][NextRender]_vars

\* ------------------------------------------------------------------------
\* Specification of repeated calls: renderMarkdown is called again after
\* it has returned, and the content changes between the calls
\* ------------------------------------------------------------------------
\* the local variables as renderMarkdown declares them
FreshRenderState ==
    [result |-> <<>>, inCodeBlock |-> FALSE, codeBlockContent |-> <<>>,
     inList |-> FALSE, listType |-> "null", listItems |-> <<>>]

\* the body of the loop on one line: the local variables after it
RenderLine(r, line) ==
    LET trimmed == Trim(line)
        closed == closeList(r)
    IN  IF IsFence(trimmed)
        THEN LET c == closeCodeBlock(closed)
             IN  [c EXCEPT !.inCodeBlock = ~c.inCodeBlock]
        ELSE IF r.inCodeBlock
        THEN [r EXCEPT !.codeBlockContent = Append(r.codeBlockContent, line)]
        ELSE IF IsHeading(trimmed)
        THEN LET match == HeadingMatch(trimmed)
                 tag == "h" \o ToString(match[1].level)
             IN  IF match # Null
                 THEN [closed EXCEPT !.result =
                          Append(closed.result,
                                 Str("<" \o tag \o ">")
                                 \o processInline(match[1].text, closed.inCodeBlock)
                                 \o Str("</" \o tag \o ">"))]
                 ELSE closed
        ELSE IF IsRule(trimmed)
        THEN [closed EXCEPT !.result = Append(closed.result, Str("<hr>"))]
        ELSE IF IsQuote(trimmed)
        THEN [closed EXCEPT !.result =
                 Append(closed.result,
                        Str("<blockquote>")
                        \o processInline(Trim(SubSeq(trimmed, 2, Len(trimmed))),
                                         closed.inCodeBlock)
                        \o Str("</blockquote>"))]
        ELSE IF IsListItem(trimmed)
        THEN LET numberedMatch == NumberedMatch(trimmed)
                 itemText == IF numberedMatch # Null THEN numberedMatch[1]
                             ELSE BulletMatch(trimmed)[1]
                 currentListType == IF numberedMatch # Null THEN "ol" ELSE "ul"
                 opened == IF ~r.inList \/ r.listType # currentListType
                           THEN [closed EXCEPT !.inList = TRUE,
                                               !.listType = currentListType]
                           ELSE r
             IN  [opened EXCEPT !.listItems = Append(opened.listItems, itemText)]
        ELSE IF trimmed # <<>>
        THEN [closed EXCEPT !.result =
                 Append(closed.result,
                        Str("<p>") \o processInline(trimmed, closed.inCodeBlock)
                        \o Str("</p>"))]
        ELSE [closed EXCEPT !.result = Append(closed.result, <<>>)]

\* the loop from the line i on
RECURSIVE RenderLinesFrom(_, _, _)
RenderLinesFrom(r, ls, i) ==
    IF i > Len(ls) THEN r
    ELSE RenderLinesFrom(RenderLine(r, ls[i]), ls, i + 1)

\* renderMarkdown(markdown) as a function of ls = markdown.split('\n')
renderMarkdown(ls) ==
    IF ls = <<>> \/ ls = << <<>> >> THEN <<>>
    ELSE JoinChars(closeCodeBlock(closeList(
                       RenderLinesFrom(FreshRenderState, ls, 1))).result,
                   <<"\n">>)

\* a call of renderMarkdown whose local variables are those of the call
\* before
RenderCallKeepState ==
    /\ returned
    /\ renderCalls < MaxRenderCalls
    /\ renderCalls' = renderCalls + 1
    /\ markdown' = <<>>
    /\ returned' = FALSE
    /\ html' = <<>>
    /\ UNCHANGED <<countVars, appVars, outlineItems, result, inCodeBlock,
                   codeBlockContent, inList, listType, listItems>>

\* updatePreview calls renderMarkdown again: the local variables are
\* declared anew
RenderCall ==
    /\ returned
    /\ renderCalls < MaxRenderCalls
    /\ renderCalls' = renderCalls + 1
    /\ markdown' = <<>>
    /\ SetRender(FreshRenderState)
    /\ returned' = FALSE
    /\ html' = <<>>
    /\ UNCHANGED <<countVars, appVars, outlineItems>>

\* no call of renderMarkdown is running
IsBetweenCalls == markdown = <<>> \/ returned

\* the call reads a line of ShortLines if it has read fewer than MaxLines
MayReadShort == ~returned /\ Len(markdown) < MaxLines

InitCalls == InitCount

NextCalls ==
    \/ RenderEmpty
    \/ MayReadShort /\ \E line \in ShortLines : RenderFence(line)
    \/ MayReadShort /\ \E line \in ShortLines : RenderCodeLine(line)
    \/ MayReadShort /\ \E line \in ShortLines : RenderHeading(line)
    \/ MayReadShort /\ \E line \in ShortLines : RenderRule(line)
    \/ MayReadShort /\ \E line \in ShortLines : RenderBlockquote(line)
    \/ MayReadShort /\ \E line \in ShortLines : RenderListItem(line)
    \/ MayReadShort /\ \E line \in ShortLines : RenderParagraph(line)
    \/ RenderReturn
    \/ RenderCall
    \/ IsBetweenCalls /\ \E t \in FormatTexts : UpdateWordCountContent(t)

SpecCalls == InitCalls /\ [][NextCalls]_vars

\* ------------------------------------------------------------------------
\* Specification of the inline transform: renderMarkdown is called on one
\* line without whitespace
\* ------------------------------------------------------------------------
\* the characters the line is made of
InlineAlphabet == {"*", "_", BT, "x"}

\* the lines of at most n characters
RECURSIVE InlineTextsOf(_)
InlineTextsOf(n) ==
    IF n = 0 THEN {<<>>}
    ELSE LET shorter == InlineTextsOf(n - 1)
         IN  shorter \cup {Append(s, c) : s \in shorter, c \in InlineAlphabet}

InlineTexts == InlineTextsOf(MaxInlineLen)

InitInline == InitCount

NextInline ==
    \/ RenderEmpty
    \/ markdown = <<>> /\ \E line \in InlineTexts : RenderFence(line)
    \/ markdown = <<>> /\ \E line \in InlineTexts : RenderParagraph(line)
    \/ RenderReturn

SpecInline == InitInline /\ [][NextInline]_vars

\* ------------------------------------------------------------------------
\* Specification of the four functions together: the content is typed
\* while the preview is visible
\* ------------------------------------------------------------------------
\* the characters typed into the editor
TotalAlphabet == {"a", " ", "\n", "#", "*", BT}

\* the wordCountOptions of the settings file: absent, every flag off, the
\* line count alone
TotalOptions ==
    { NoOptions,
      [flag \in Flags |-> FALSE],
      [flag \in Flags |-> flag = "showLineCount"] }

InitTotal == InitCount

\* editor.onDidChangeModelContent while previewVisible: updateWordCount,
\* updateOutline and updatePreview, which calls renderMarkdown on the
\* content
TypePreviewed(c) ==
    /\ Len(text) < MaxTotalLen
    /\ text' = Append(text, c)
    /\ counts' = countWords(text')
    /\ wordCountText' = formatWordCount(counts', options)
    /\ outlineItems' = parseHeadings(text')
    /\ markdown' = SplitNewline(text')
    /\ SetRender(closeCodeBlock(closeList(
                     RenderLinesFrom(FreshRenderState, markdown', 1))))
    /\ returned' = TRUE
    /\ html' = renderMarkdown(markdown')
    /\ UNCHANGED <<options, renderCalls, appVars>>

NextTotal ==
    \/ \E c \in TotalAlphabet : TypePreviewed(c)
    \/ \E o \in TotalOptions : UpdateWordCountFromDisk(o)

SpecTotal == InitTotal /\ [][NextTotal]_vars

\* ------------------------------------------------------------------------
\* The application state: tabs, files, auto-save and settings
\* ------------------------------------------------------------------------
\* the value of filePath of a tab without a file (null)
NoPath == "null"

\* the contents of the documents
Documents == {<<>>, Str("a")}

\* the settings: of the settings record only autoSave is modelled, the other
\* fields keep the values of the default settings
Settings == [autoSave : BOOLEAN]
DefaultSettings == [autoSave |-> TRUE]

\* a present value of originalSettings and currentSettings
Some(x) == <<x>>

\* the lists get-open-files returns: the tabs saved when the window closed
OpenFileLists ==
    { <<>>,
      << [filePath |-> "a.txt", content |-> <<>>],
         [filePath |-> NoPath, content |-> Str("a")] >>,
      << [filePath |-> NoPath, content |-> Str("a")],
         [filePath |-> "b.txt", content |-> <<>>],
         [filePath |-> "b.txt", content |-> <<>>] >> }

\* the JavaScript state a handler reads and writes; counted and outlined
\* hold the content the handler has called updateWordCount and updateOutline
\* with
State ==
    [text |-> text, counted |-> Null, outlined |-> Null, tabs |-> tabs,
     activeTabId |-> activeTabId, tabIdCounter |-> tabIdCounter,
     settingsTabId |-> settingsTabId, lastSavedContent |-> lastSavedContent,
     editorModel |-> editorModel, autoSaveEnabled |-> autoSaveEnabled,
     autoSaveInterval |-> autoSaveInterval, timers |-> timers,
     startAutoSaveCalls |-> startAutoSaveCalls, form |-> form,
     originalSettings |-> originalSettings,
     currentSettings |-> currentSettings, formLoads |-> formLoads]

\* the handler leaves the state st
Becomes(st) ==
    /\ text' = st.text
    /\ counts' = IF st.counted = Null THEN counts
                 ELSE countWords(st.counted[1])
    /\ wordCountText' = IF st.counted = Null THEN wordCountText
                        ELSE formatWordCount(counts', options)
    /\ outlineItems' = IF st.outlined = Null THEN outlineItems
                       ELSE parseHeadings(st.outlined[1])
    /\ tabs' = st.tabs
    /\ activeTabId' = st.activeTabId
    /\ tabIdCounter' = st.tabIdCounter
    /\ settingsTabId' = st.settingsTabId
    /\ lastSavedContent' = st.lastSavedContent
    /\ editorModel' = st.editorModel
    /\ autoSaveEnabled' = st.autoSaveEnabled
    /\ autoSaveInterval' = st.autoSaveInterval
    /\ timers' = st.timers
    /\ startAutoSaveCalls' = st.startAutoSaveCalls
    /\ form' = st.form
    /\ originalSettings' = st.originalSettings
    /\ currentSettings' = st.currentSettings
    /\ formLoads' = st.formLoads
    /\ UNCHANGED <<options, renderVars>>

\* the counters stay within the bounds
WithinBounds(st) ==
    /\ st.tabIdCounter <= MaxTabId
    /\ st.startAutoSaveCalls <= MaxStartCalls
    /\ st.formLoads <= MaxFormLoads

\* tabs.findIndex(t => t.id === tabId) + 1, 0 when there is none
TabIndex(ts, tabId) ==
    IF \E i \in DOMAIN ts : ts[i].id = tabId
    THEN CHOOSE i \in DOMAIN ts : ts[i].id = tabId
    ELSE 0

\* the index of tabs.find(t => t.filePath === path), 0 when there is none
PathIndex(ts, path) ==
    LET found == {i \in DOMAIN ts : ts[i].filePath = path}
    IN  IF found = {} THEN 0 ELSE MinIndex(found)

\* tabs.splice(i, 1)
RemoveAt(ts, i) == SubSeq(ts, 1, i - 1) \o SubSeq(ts, i + 1, Len(ts))

\* lastSavedContent[tabId] || ''
LastSaved(saved, tabId) ==
    IF tabId \in DOMAIN saved THEN saved[tabId] ELSE <<>>

\* lastSavedContent[tabId] = content
Put(saved, tabId, content) ==
    [k \in DOMAIN saved \cup {tabId} |->
        IF k = tabId THEN content ELSE saved[k]]

\* editor.getValue(): the content of the model the editor shows, '' when
\* the editor has no model
ModelValue(ts, tabId) ==
    IF TabIndex(ts, tabId) = 0 THEN <<>> ELSE ts[TabIndex(ts, tabId)].model

\* updateWordCount and updateOutline read the content of the editor
updateWordCount(st) == [st EXCEPT !.counted = Some(st.text)]
updateOutline(st) == [st EXCEPT !.outlined = Some(st.text)]

\* stopAutoSave
stopAutoSave(st) ==
    IF st.autoSaveInterval # 0
    THEN [st EXCEPT !.timers = @ \ {st.autoSaveInterval},
                    !.autoSaveInterval = 0]
    ELSE st

\* startAutoSave up to its await: the timer is cleared, the variable keeps
\* its id, and the call waits for get-settings when auto-save is on
startAutoSave(st) ==
    LET cleared == [st EXCEPT !.timers = @ \ {st.autoSaveInterval}]
    IN  IF st.autoSaveEnabled
        THEN [cleared EXCEPT !.startAutoSaveCalls = @ + 1]
        ELSE cleared

\* toggleAutoSave up to its get-settings call
toggleAutoSave(st) ==
    LET toggled == [st EXCEPT !.autoSaveEnabled = ~@]
    IN  IF toggled.autoSaveEnabled THEN startAutoSave(toggled)
        ELSE stopAutoSave(toggled)

\* applySettings: the default view options show the word count and hide
\* the outline
applySettings(st, settings) ==
    LET stored == IF st.currentSettings = Null
                  THEN [st EXCEPT !.currentSettings = Some(settings)]
                  ELSE st
        enabled == [stored EXCEPT !.autoSaveEnabled = settings.autoSave]
        timed == IF enabled.autoSaveEnabled
                 THEN startAutoSave(stopAutoSave(enabled))
                 ELSE stopAutoSave(enabled)
    IN  updateWordCount(timed)

\* loadFormValues
loadFormValues(st, settings) == [st EXCEPT !.form = settings]

\* loadSettingsIntoForm up to the return of get-settings
loadSettingsIntoForm(st) == [st EXCEPT !.formLoads = @ + 1]

\* editor.setModel(the model of the tab tabId)
SetModel(st, tabId) ==
    [st EXCEPT !.editorModel = tabId, !.text = ModelValue(st.tabs, tabId)]

\* switchTab
switchTab(st, tabId) ==
    LET i == TabIndex(st.tabs, tabId)
        c == TabIndex(st.tabs, st.activeTabId)
    IN  IF i = 0 THEN st
        ELSE IF st.tabs[i].isSettings
        THEN LET active == [st EXCEPT !.activeTabId = tabId]
             IN  IF st.originalSettings = Null
                 THEN loadSettingsIntoForm(active) ELSE active
        ELSE LET saved ==
                     IF /\ st.activeTabId # 0
                        /\ c # 0
                        /\ ~st.tabs[c].isSettings
                        /\ st.tabs[c].filePath # NoPath
                     THEN Put(st.lastSavedContent, st.activeTabId, st.text)
                     ELSE st.lastSavedContent
                 switched == [st EXCEPT !.lastSavedContent = saved,
                                        !.activeTabId = tabId]
             IN  updateOutline(updateWordCount(SetModel(switched, tabId)))

\* the newTabNumber of the untitled tabs that have one, in tab order
RECURSIVE ExistingNumbersFrom(_, _)
ExistingNumbersFrom(ts, i) ==
    IF i > Len(ts) THEN <<>>
    ELSE IF /\ ts[i].filePath = NoPath
            /\ ~ts[i].isSettings
            /\ ts[i].newTabNumber # 0
    THEN <<ts[i].newTabNumber>> \o ExistingNumbersFrom(ts, i + 1)
    ELSE ExistingNumbersFrom(ts, i + 1)

\* Array.prototype.sort((a, b) => a - b)
RECURSIVE SortNumbers(_)
SortNumbers(ns) ==
    IF ns = <<>> THEN <<>>
    ELSE LET m == CHOOSE i \in DOMAIN ns : \A j \in DOMAIN ns : ns[i] <= ns[j]
         IN  <<ns[m]>> \o SortNumbers(RemoveAt(ns, m))

\* the loop over the sorted numbers left out: the number is the first one
NextNumberFirst(ns, i, n) == n

\* the loop over the sorted numbers: count up from n while the numbers
\* follow one another
RECURSIVE NextNumberFrom(_, _, _)
NextNumberFrom(ns, i, n) ==
    IF i > Len(ns) THEN n
    ELSE IF ns[i] = n THEN NextNumberFrom(ns, i + 1, n + 1)
    ELSE n

\* a tab titled "New Tab", without a number, is open
HasNewTab(ts) ==
    \E i \in DOMAIN ts :
        ts[i].filePath = NoPath /\ ~ts[i].isSettings /\ ts[i].newTabNumber = 0

\* the newTabNumber of a new untitled tab, 0 for null
NewTabNumber(ts) ==
    IF HasNewTab(ts)
    THEN NextNumberFrom(SortNumbers(ExistingNumbersFrom(ts, 1)), 1, 2)
    ELSE 0

\* the id createNewTab returns
createNewTabId(st, filePath) ==
    IF filePath # NoPath /\ PathIndex(st.tabs, filePath) # 0
    THEN st.tabs[PathIndex(st.tabs, filePath)].id
    ELSE st.tabIdCounter + 1

\* createNewTab
createNewTab(st, filePath, content) ==
    IF filePath # NoPath /\ PathIndex(st.tabs, filePath) # 0
    THEN switchTab(st, st.tabs[PathIndex(st.tabs, filePath)].id)
    ELSE LET tabId == st.tabIdCounter + 1
             tab == [id |-> tabId,
                     filePath |-> filePath,
                     isSettings |-> FALSE,
                     newTabNumber |-> IF filePath = NoPath
                                      THEN NewTabNumber(st.tabs) ELSE 0,
                     model |-> content]
             saved == IF filePath # NoPath
                      THEN Put(st.lastSavedContent, tabId, content)
                      ELSE st.lastSavedContent
             created == [st EXCEPT !.tabIdCounter = tabId,
                                   !.tabs = Append(@, tab),
                                   !.activeTabId = tabId,
                                   !.lastSavedContent = saved]
         IN  updateOutline(updateWordCount(SetModel(created, tabId)))

\* showDefaultView
showDefaultView(st) == [st EXCEPT !.activeTabId = 0]

\* the part of closeTab that reverts the settings when the settings tab is
\* closed
RevertSettings(st) ==
    LET reverted ==
            IF st.originalSettings = Null THEN st
            ELSE IF /\ st.currentSettings # Null
                    /\ st.currentSettings # st.originalSettings
            THEN LET original == st.originalSettings[1]
                     applied == applySettings(loadFormValues(st, original),
                                              original)
                 IN  updateWordCount([applied EXCEPT !.currentSettings = Null])
            ELSE [st EXCEPT !.currentSettings = Null]
    IN  [reverted EXCEPT !.settingsTabId = 0]

\* tab.model.dispose(): an editor that shows the model is left without one
DisposeModel(st, tabId) ==
    IF st.editorModel = tabId
    THEN [st EXCEPT !.editorModel = 0, !.text = <<>>]
    ELSE st

\* closeTab where the first tab is activated after the active tab is closed
closeTabActivatesFirst(st, tabId) ==
    LET i == TabIndex(st.tabs, tabId)
    IN  IF i = 0 THEN st
        ELSE LET tab == st.tabs[i]
                 closed == IF tab.isSettings THEN RevertSettings(st)
                           ELSE DisposeModel(st, tabId)
                 spliced == [closed EXCEPT !.tabs = RemoveAt(@, i)]
             IN  IF st.activeTabId # tabId THEN spliced
                 ELSE IF Len(spliced.tabs) > 0
                 THEN switchTab(spliced, spliced.tabs[1].id)
                 ELSE showDefaultView(spliced)

\* closeTab
closeTab(st, tabId) ==
    LET i == TabIndex(st.tabs, tabId)
    IN  IF i = 0 THEN st
        ELSE LET tab == st.tabs[i]
                 closed == IF tab.isSettings THEN RevertSettings(st)
                           ELSE DisposeModel(st, tabId)
                 spliced == [closed EXCEPT !.tabs = RemoveAt(@, i)]
                 newIndex == IF i < Len(spliced.tabs) THEN i
                             ELSE Len(spliced.tabs)
             IN  IF st.activeTabId # tabId THEN spliced
                 ELSE IF Len(spliced.tabs) > 0
                 THEN switchTab(spliced, spliced.tabs[newIndex].id)
                 ELSE showDefaultView(spliced)

\* openSettingsTab
openSettingsTab(st) ==
    IF st.settingsTabId # 0 /\ TabIndex(st.tabs, st.settingsTabId) # 0
    THEN switchTab(st, st.settingsTabId)
    ELSE LET tabId == st.tabIdCounter + 1
             tab == [id |-> tabId, filePath |-> NoPath, isSettings |-> TRUE,
                     newTabNumber |-> 0, model |-> <<>>]
         IN  loadSettingsIntoForm([st EXCEPT !.tabIdCounter = tabId,
                                             !.settingsTabId = tabId,
                                             !.tabs = Append(@, tab),
                                             !.activeTabId = tabId])

\* closeSettingsTab
closeSettingsTab(st) ==
    IF st.settingsTabId = 0 THEN st
    ELSE LET i == TabIndex(st.tabs, st.settingsTabId)
             spliced == IF i # 0 THEN [st EXCEPT !.tabs = RemoveAt(@, i)]
                        ELSE st
             cleared == [spliced EXCEPT
                            !.settingsTabId = 0,
                            !.currentSettings =
                                IF st.originalSettings # Null THEN Null ELSE @]
             counted == updateWordCount(cleared)
         IN  IF Len(counted.tabs) > 0
             THEN switchTab(counted, counted.tabs[1].id)
             ELSE createNewTab(counted, NoPath, <<>>)

\* the variables the handlers do not write
ioVars == <<files, saveFileCalls, restorePending, openFiles, seenPaths,
            settingsFile, loadSettingsPending, toggleSaves, settingsSaves>>

\* the active tab, when the tab list holds it
HasActiveTab == activeTabId # 0 /\ TabIndex(tabs, activeTabId) # 0
ActiveTab == tabs[TabIndex(tabs, activeTabId)]

\* the settings form is on screen
SettingsShown == settingsTabId # 0 /\ activeTabId = settingsTabId

\* restoreOpenFiles: get-open-files returns the list
GetOpenFilesReturns(list) ==
    /\ restorePending
    /\ restorePending' = FALSE
    /\ openFiles' = list
    /\ seenPaths' = {}
    /\ Becomes(State)
    /\ UNCHANGED <<files, saveFileCalls, settingsFile, loadSettingsPending,
                   toggleSaves, settingsSaves>>

\* restoreOpenFiles: one round of the loop over the list
RestoreFile ==
    /\ openFiles # <<>>
    /\ LET file == Head(openFiles)
           tabId == createNewTabId(State, file.filePath)
           restored == createNewTab(State, file.filePath, files[file.filePath])
           st == IF file.filePath # NoPath
                 THEN IF file.filePath \in seenPaths THEN State
                      ELSE [restored EXCEPT !.lastSavedContent =
                               Put(@, tabId, files[file.filePath])]
                 ELSE IF /\ file.content # <<>>
                         /\ \A i \in DOMAIN tabs : tabs[i].filePath # NoPath
                 THEN createNewTab(State, NoPath, file.content)
                 ELSE State
       IN  /\ WithinBounds(st)
           /\ Becomes(st)
           /\ seenPaths' = IF file.filePath # NoPath
                           THEN seenPaths \cup {file.filePath} ELSE seenPaths
    /\ openFiles' = Tail(openFiles)
    /\ UNCHANGED <<files, saveFileCalls, restorePending, settingsFile,
                   loadSettingsPending, toggleSaves, settingsSaves>>

\* menu-new-tab, the new tab button, the button of the default view
NewTab ==
    /\ LET st == createNewTab(State, NoPath, <<>>)
       IN  WithinBounds(st) /\ Becomes(st)
    /\ UNCHANGED ioVars

\* menu-open-file after the dialog returned the file path
OpenFile(path) ==
    /\ LET st == IF PathIndex(tabs, path) # 0
                 THEN switchTab(State, tabs[PathIndex(tabs, path)].id)
                 ELSE createNewTab(State, path, files[path])
       IN  WithinBounds(st) /\ Becomes(st)
    /\ UNCHANGED ioVars

\* a click on the tab tabId
SwitchTab(tabId) ==
    /\ LET st == switchTab(State, tabId)
       IN  WithinBounds(st) /\ Becomes(st)
    /\ UNCHANGED ioVars

\* a click on the close button of the tab tabId, menu-close-tab
CloseTab(tabId) ==
    /\ LET st == closeTab(State, tabId)
       IN  WithinBounds(st) /\ Becomes(st)
    /\ UNCHANGED ioVars

\* menu-open-settings
OpenSettingsTab ==
    /\ LET st == openSettingsTab(State)
       IN  WithinBounds(st) /\ Becomes(st)
    /\ UNCHANGED ioVars

\* onDidChangeModelContent: the user changes the content of the active tab
\* to c (the preview pane is hidden)
EditContent(c) ==
    /\ HasActiveTab
    /\ ~ActiveTab.isSettings
    /\ editorModel = activeTabId
    /\ c # text
    /\ LET i == TabIndex(tabs, activeTabId)
           st == [State EXCEPT !.tabs[i].model = c, !.text = c]
       IN  Becomes(updateOutline(updateWordCount(st)))
    /\ UNCHANGED ioVars

\* a save-file invocation: the arguments and the tab the handler holds
SaveFileCall(auto) ==
    [filePath |-> ActiveTab.filePath, content |-> text,
     tabId |-> activeTabId, auto |-> auto]

\* menu-save-file for a tab with a file: save-file is invoked
SaveFile ==
    /\ HasActiveTab
    /\ ActiveTab.filePath # NoPath
    /\ Len(saveFileCalls) < MaxSaveFileCalls
    /\ saveFileCalls' = Append(saveFileCalls, SaveFileCall(FALSE))
    /\ Becomes(State)
    /\ UNCHANGED <<files, restorePending, openFiles, seenPaths, settingsFile,
                   loadSettingsPending, toggleSaves, settingsSaves>>

\* menu-save-file for a tab without a file: the dialog returns path and the
\* file is written (the dialog is modal, the tabs do not change meanwhile)
SaveFileAs(path) ==
    /\ HasActiveTab
    /\ ActiveTab.filePath = NoPath
    /\ files' = [files EXCEPT ![path] = text]
    /\ LET i == TabIndex(tabs, activeTabId)
       IN  Becomes([State EXCEPT
                       !.tabs[i].filePath = path,
                       !.lastSavedContent = Put(@, activeTabId, text)])
    /\ UNCHANGED <<saveFileCalls, restorePending, openFiles, seenPaths,
                   settingsFile, loadSettingsPending, toggleSaves,
                   settingsSaves>>

\* the callback of the auto-save timer finds content to save
AutoSaveTick ==
    /\ timers # {}
    /\ HasActiveTab
    /\ ActiveTab.filePath # NoPath
    /\ text # LastSaved(lastSavedContent, activeTabId)
    /\ Len(saveFileCalls) < MaxSaveFileCalls
    /\ saveFileCalls' = Append(saveFileCalls, SaveFileCall(TRUE))
    /\ Becomes(State)
    /\ UNCHANGED <<files, restorePending, openFiles, seenPaths, settingsFile,
                   loadSettingsPending, toggleSaves, settingsSaves>>

\* save-file wrote the file and returns success
SaveFileReturns ==
    /\ saveFileCalls # <<>>
    /\ LET call == Head(saveFileCalls)
       IN  /\ files' = [files EXCEPT ![call.filePath] = call.content]
           /\ Becomes([State EXCEPT !.lastSavedContent =
                          Put(@, activeTabId, call.content)])
    /\ saveFileCalls' = Tail(saveFileCalls)
    /\ UNCHANGED <<restorePending, openFiles, seenPaths, settingsFile,
                   loadSettingsPending, toggleSaves, settingsSaves>>

\* the id setInterval returns: one that no timer and no variable holds
NewTimer ==
    CHOOSE n \in 1..(MaxTimers + 1) :
        /\ n \notin timers \cup {autoSaveInterval}
        /\ \A m \in 1..(n - 1) : m \in timers \cup {autoSaveInterval}

\* startAutoSave after its await: the timer is installed
StartAutoSaveResumes ==
    /\ startAutoSaveCalls > 0
    /\ Cardinality(timers) < MaxTimers
    /\ Becomes([State EXCEPT !.startAutoSaveCalls = @ - 1,
                             !.autoSaveInterval = NewTimer,
                             !.timers = @ \cup {NewTimer}])
    /\ UNCHANGED ioVars

\* menu-toggle-auto-save
ToggleAutoSave ==
    /\ toggleSaves < MaxPending
    /\ LET st == toggleAutoSave(State)
       IN  WithinBounds(st) /\ Becomes(st)
    /\ toggleSaves' = toggleSaves + 1
    /\ UNCHANGED <<files, saveFileCalls, restorePending, openFiles, seenPaths,
                   settingsFile, loadSettingsPending, settingsSaves>>

\* toggleAutoSave after get-settings: the settings are saved with the flag,
\* and settings-updated applies them
ToggleSaved ==
    /\ toggleSaves > 0
    /\ LET settings == [settingsFile EXCEPT !.autoSave = autoSaveEnabled]
           st == updateWordCount(applySettings(State, settings))
       IN  /\ settingsFile' = settings
           /\ WithinBounds(st)
           /\ Becomes(st)
    /\ toggleSaves' = toggleSaves - 1
    /\ UNCHANGED <<files, saveFileCalls, restorePending, openFiles, seenPaths,
                   loadSettingsPending, settingsSaves>>

\* loadSettings after get-settings
LoadSettingsResolves ==
    /\ loadSettingsPending
    /\ LET loaded == [State EXCEPT !.originalSettings = Some(settingsFile)]
           st == updateWordCount(applySettings(loaded, settingsFile))
       IN  WithinBounds(st) /\ Becomes(st)
    /\ loadSettingsPending' = FALSE
    /\ UNCHANGED <<files, saveFileCalls, restorePending, openFiles, seenPaths,
                   settingsFile, toggleSaves, settingsSaves>>

\* loadSettingsIntoForm after get-settings
LoadSettingsIntoFormResolves ==
    /\ formLoads > 0
    /\ Becomes([State EXCEPT !.formLoads = @ - 1,
                             !.originalSettings = Some(settingsFile),
                             !.currentSettings = Some(settingsFile),
                             !.form = settingsFile])
    /\ UNCHANGED ioVars

\* an input of the settings form changes, the auto-save box is left at b
ChangeSetting(b) ==
    /\ SettingsShown
    /\ LET settings == [form EXCEPT !.autoSave = b]
           previewed == [State EXCEPT !.form = settings,
                                      !.currentSettings = Some(settings)]
           st == updateWordCount(applySettings(previewed, settings))
       IN  WithinBounds(st) /\ Becomes(st)
    /\ UNCHANGED ioVars

\* the Cancel button of the settings form
CancelSettings ==
    /\ SettingsShown
    /\ LET reverted ==
               IF originalSettings = Null THEN State
               ELSE LET original == originalSettings[1]
                        applied == applySettings(
                                       loadFormValues(State, original),
                                       original)
                    IN  updateWordCount(
                            [applied EXCEPT !.currentSettings = Null])
           st == closeSettingsTab(reverted)
       IN  WithinBounds(st) /\ Becomes(st)
    /\ UNCHANGED ioVars

\* the Save button of the settings form: save-settings is invoked
SaveSettings ==
    /\ SettingsShown
    /\ Len(settingsSaves) < MaxPending
    /\ settingsSaves' = Append(settingsSaves, form)
    /\ Becomes(State)
    /\ UNCHANGED <<files, saveFileCalls, restorePending, openFiles, seenPaths,
                   settingsFile, loadSettingsPending, toggleSaves>>

\* save-settings wrote the file: settings-updated applies the settings, then
\* the Save handler goes on
SaveSettingsReturns ==
    /\ settingsSaves # <<>>
    /\ LET settings == Head(settingsSaves)
           updated == updateWordCount(applySettings(State, settings))
           saved == [updated EXCEPT !.originalSettings = Some(settings),
                                    !.currentSettings = Null]
           st == closeSettingsTab(updateWordCount(saved))
       IN  /\ settingsFile' = settings
           /\ WithinBounds(st)
           /\ Becomes(st)
    /\ settingsSaves' = Tail(settingsSaves)
    /\ UNCHANGED <<files, saveFileCalls, restorePending, openFiles, seenPaths,
                   loadSettingsPending, toggleSaves>>

\* ------------------------------------------------------------------------
\* Specification of the tabs: tabs are created, restored, switched, saved
\* under a name and closed
\* ------------------------------------------------------------------------
InitTabs == InitCount

NextTabs ==
    \/ \E list \in OpenFileLists : GetOpenFilesReturns(list)
    \/ RestoreFile
    \/ NewTab
    \/ OpenFile("a.txt")
    \/ SaveFileAs("a.txt")
    \/ \E i \in DOMAIN tabs : SwitchTab(tabs[i].id)
    \/ \E i \in DOMAIN tabs : CloseTab(tabs[i].id)
    \/ OpenSettingsTab
    \/ CancelSettings

SpecTabs == InitTabs /\ [][NextTabs]_vars

\* ------------------------------------------------------------------------
\* Specification of auto-save: the content of the tabs changes and the
\* timer saves it
\* ------------------------------------------------------------------------
InitAutoSave == InitCount

\* the tabs of the auto-save scenarios: at most MaxAutoSaveTabs are created
MayCreateTab == tabIdCounter < MaxAutoSaveTabs

NextAutoSave ==
    \/ MayCreateTab /\ NewTab
    \/ MayCreateTab /\ OpenFile("a.txt")
    \/ SaveFile
    \/ SaveFileAs("b.txt")
    \/ \E i \in DOMAIN tabs : SwitchTab(tabs[i].id)
    \/ \E i \in DOMAIN tabs : CloseTab(tabs[i].id)
    \/ MayCreateTab /\ OpenSettingsTab
    \/ \E c \in Documents : EditContent(c)
    \/ StartAutoSaveResumes
    \/ AutoSaveTick
    \/ SaveFileReturns

SpecAutoSave == InitAutoSave /\ [][NextAutoSave]_vars

\* ------------------------------------------------------------------------
\* Specification of the settings: the settings are loaded, previewed,
\* saved and cancelled, and auto-save is switched on and off
\* ------------------------------------------------------------------------
InitSettings == InitCount

NextSettings ==
    \/ LoadSettingsResolves
    \/ OpenSettingsTab
    \/ LoadSettingsIntoFormResolves
    \/ \E b \in BOOLEAN : ChangeSetting(b)
    \/ CancelSettings
    \/ SaveSettings
    \/ SaveSettingsReturns
    \/ settingsTabId # 0 /\ CloseTab(settingsTabId)
    \/ ToggleAutoSave
    \/ ToggleSaved
    \/ StartAutoSaveResumes

SpecSettings == InitSettings /\ [][NextSettings]_vars

\* ------------------------------------------------------------------------
\* Properties of renderMarkdown
\* ------------------------------------------------------------------------
\* the number of fence lines read so far
FenceLinesRead == Cardinality({i \in DOMAIN markdown : IsFence(Trim(markdown[i]))})

\* C1: every fence line toggles the code-block mode: during the loop the
\* renderer is in code-block mode exactly after an odd number of fence
\* lines, so it is back in normal mode after a closing fence.
RenderFenceToggles == ~returned => (inCodeBlock <=> FenceLinesRead % 2 = 1)

\* the tags renderMarkdown writes
RendererTags ==
    { Str("<p>"), Str("</p>"), Str("<hr>"),
      Str("<h1>"), Str("<h2>"), Str("<h3>"), Str("<h4>"), Str("<h5>"),
      Str("<h6>"), Str("</h1>"), Str("</h2>"), Str("</h3>"), Str("</h4>"),
      Str("</h5>"), Str("</h6>"),
      Str("<blockquote>"), Str("</blockquote>"),
      Str("<ul>"), Str("</ul>"), Str("<ol>"), Str("</ol>"),
      Str("<li>"), Str("</li>"),
      Str("<pre>"), Str("</pre>"), Str("<code>"), Str("</code>"),
      Str("<strong>"), Str("</strong>"), Str("<em>"), Str("</em>"),
      Str("</a>") }

\* the beginning and the end of the tag written for a link
LinkTagStart == Str("<a href=\"")
LinkTagEnd == Str("\">")

\* the character references the escaping writes
Entities == {Str("&amp;"), Str("&lt;"), Str("&gt;"), Str("&nbsp;")}

\* lit occurs in s and ends at index k
EndsAt(s, k, lit) == k >= Len(lit) /\ MatchesAt(s, k - Len(lit) + 1, lit)

\* every <, > and & of s belongs to a tag of the renderer or to a
\* character reference
OnlyRendererMarkup(s) ==
    \A k \in DOMAIN s :
        /\ s[k] = "<" =>
               \E tag \in RendererTags \cup {LinkTagStart} : MatchesAt(s, k, tag)
        /\ s[k] = ">" =>
               \E tag \in RendererTags \cup {LinkTagEnd} : EndsAt(s, k, tag)
        /\ s[k] = "&" => \E ent \in Entities : MatchesAt(s, k, ent)

\* C2: the text of the source is HTML-escaped before any substitution: in
\* every output line and in the returned string, each <, > and & is part of
\* a tag the renderer wrote or of a character reference, so no <, > or &
\* of the source reaches the output unescaped.
RenderEscapesSource ==
    /\ \A i \in DOMAIN result : OnlyRendererMarkup(result[i])
    /\ OnlyRendererMarkup(html)

RenderEscapesSourceWitness ==
    /\ returned
    /\ markdown = <<Str("<script>x</script>"), Str("# a<b"), Str("- x & y")>>
    /\ html = Str("<p>&lt;script&gt;x&lt;/script&gt;</p>\n<h1>a&lt;b</h1>\n")
              \o Str("<ul>\n  <li>x &amp; y</li>\n</ul>")

\* ------------------------------------------------------------------------
\* Properties of countWords
\* ------------------------------------------------------------------------
\* the text is empty or made of whitespace only
BlankInput == \A i \in DOMAIN text : IsWhitespace(text[i])

\* C3: for every text, the total word count returned by countWords is the
\* sum of the returned Chinese character count and English word count.
CountTotalIsSum == counts.words = counts.chineseChars + counts.englishWords

CountTotalIsSumWitness ==
    /\ text = <<"U+4E00", "U+9FFF", " ", "a">>
    /\ counts.chineseChars = 2
    /\ counts.englishWords = 1
    /\ counts.words = 3

\* C4: for empty or whitespace-only text (newlines included) countWords
\* returns 0 words, 0 Chinese characters, 0 English words, 1 line and
\* 0 paragraphs.
CountBlankIsZero ==
    BlankInput =>
        /\ counts.words = 0
        /\ counts.chineseChars = 0
        /\ counts.englishWords = 0
        /\ counts.lines = 1
        /\ counts.paragraphs = 0

CountBlankIsZeroWitness ==
    /\ text = <<" ", "\n", "\n", "U+3000">>
    /\ counts.lines = 1
    /\ counts.paragraphs = 0

\* C5 as stated: for every text, whitespace-only text included, the
\* character count is the length of the unmodified text.
CountCharactersIsLength == counts.characters = Len(text)

\* C5 amended: for non-blank text the character count is the length of the
\* unmodified text (leading and trailing whitespace included); for empty or
\* whitespace-only text it is 0.
CountCharactersAmended ==
    /\ ~BlankInput => counts.characters = Len(text)
    /\ BlankInput => counts.characters = 0

CountCharactersAmendedWitness ==
    /\ text = <<" ", "a", "\n">>
    /\ counts.characters = 3

\* C6: for non-blank text the Chinese character count is the number of
\* characters whose code unit lies in 0x4E00..0x9FFF.
CountChineseIsRange ==
    ~BlankInput =>
        counts.chineseChars =
            Cardinality({i \in DOMAIN text : CharCode(text[i]) \in 19968..40959})

CountChineseIsRangeWitness ==
    /\ text = <<"U+4E00", "U+A000", "U+9FFF", "U+3000">>
    /\ counts.chineseChars = 2

\* a character that belongs to an English token
IsTokenChar(c) == ~IsWhitespace(c) /\ CharCode(c) \notin 19968..40959

\* C7: for non-blank text the English word count is the number of maximal
\* runs of characters that are neither whitespace nor CJK ideographs.
CountEnglishIsRuns ==
    ~BlankInput =>
        counts.englishWords =
            Cardinality({i \in DOMAIN text :
                           /\ IsTokenChar(text[i])
                           /\ (i = 1 \/ ~IsTokenChar(text[i - 1]))})

CountEnglishIsRunsWitness ==
    /\ text = <<"a", "U+4E00", "a">>
    /\ counts.englishWords = 2

\* C8: the line count is at least 1; for non-blank text it is one more than
\* the number of newline characters, so a trailing newline adds a line and
\* a carriage return before a newline adds none.
CountLinesIsNewlines ==
    /\ counts.lines >= 1
    /\ ~BlankInput =>
           counts.lines = 1 + Cardinality({i \in DOMAIN text : text[i] = "\n"})

CountLinesIsNewlinesWitness ==
    /\ text = <<"a", "\r", "\n", "a", "\n">>
    /\ counts.lines = 3

\* the lines of s, split at every newline character
RECURSIVE NewlineSegments(_)
NewlineSegments(s) ==
    IF \A i \in DOMAIN s : s[i] # "\n" THEN <<s>>
    ELSE LET k == CHOOSE i \in DOMAIN s :
                      s[i] = "\n" /\ \A j \in 1..(i - 1) : s[j] # "\n"
         IN  <<SubSeq(s, 1, k - 1)>> \o NewlineSegments(SubSeq(s, k + 1, Len(s)))

IsBlankSegment(seg) == \A i \in DOMAIN seg : IsWhitespace(seg[i])

\* the number of maximal runs of consecutive non-blank lines of s
NonBlankLineRuns(s) ==
    LET segs == NewlineSegments(s)
    IN  Cardinality({i \in DOMAIN segs :
                       /\ ~IsBlankSegment(segs[i])
                       /\ (i = 1 \/ IsBlankSegment(segs[i - 1]))})

\* C9: for non-blank text the paragraph count is at least 1 and is the
\* number of blocks of non-blank lines separated by blank lines; several
\* consecutive blank lines separate two blocks like a single one.
CountParagraphsIsBlocks ==
    ~BlankInput =>
        /\ counts.paragraphs >= 1
        /\ counts.paragraphs = NonBlankLineRuns(text)

CountParagraphsIsBlocksWitness ==
    /\ text = <<"a", "\n", "\n", "\n", "a">>
    /\ counts.paragraphs = 2

\* ------------------------------------------------------------------------
\* Properties of formatWordCount
\* ------------------------------------------------------------------------
\* the flag as formatWordCount reads it from the options record
FlagOn(flag) ==
    IF flag \in {"showLineCount", "showParagraphCount"}
    THEN flag \in DOMAIN options /\ options[flag]
    ELSE flag \notin DOMAIN options \/ options[flag]

\* s begins with the segment seg, and seg ends there
StartsWithSegment(s, seg) ==
    /\ Len(s) >= Len(seg)
    /\ SubSeq(s, 1, Len(seg)) = seg
    /\ \/ Len(s) = Len(seg)
       \/ /\ Len(s) >= Len(seg) + 3
          /\ SubSeq(s, Len(seg) + 1, Len(seg) + 3) = " | "

ChineseBreakdown == "Chinese: " \o ToString(counts.chineseChars)
EnglishBreakdown == "English: " \o ToString(counts.englishWords)

\* the word segment the claim describes
WordsSegment ==
    "Words: " \o ToString(counts.words) \o
    ( IF ~FlagOn("showWordCountBreakdown") THEN ""
      ELSE IF FlagOn("showChineseWordCount") /\ FlagOn("showEnglishWordCount")
           THEN " (" \o ChineseBreakdown \o ", " \o EnglishBreakdown \o ")"
      ELSE IF FlagOn("showChineseWordCount")
           THEN " (" \o ChineseBreakdown \o ")"
      ELSE IF FlagOn("showEnglishWordCount")
           THEN " (" \o EnglishBreakdown \o ")"
      ELSE "" )

\* C10: with showTotalWordCount on, the first segment of the formatted text
\* is 'Words: {total}', followed when showWordCountBreakdown is on by one
\* parenthesised comma-joined breakdown holding 'Chinese: {n}' iff
\* showChineseWordCount and 'English: {n}' iff showEnglishWordCount, in that
\* order, and by nothing when neither sub-flag is on.
FormatWordsSegment ==
    FlagOn("showTotalWordCount") => StartsWithSegment(wordCountText, WordsSegment)

FormatWordsSegmentWitness ==
    /\ counts.chineseChars = 2
    /\ counts.englishWords = 1
    /\ "showWordCountBreakdown" \in DOMAIN options
    /\ options["showWordCountBreakdown"]
    /\ "showChineseWordCount" \in DOMAIN options
    /\ ~options["showChineseWordCount"]
    /\ "showCharacterCount" \notin DOMAIN options
    /\ FlagOn("showEnglishWordCount")
    /\ FlagOn("showTotalWordCount")
    /\ wordCountText = "Words: 3 (English: 1) | Characters: 4"

\* s.split(' | ') of a display text
RECURSIVE SplitBarFrom(_, _, _)
SplitBarFrom(s, p, q) ==
    IF q > Len(s) THEN <<SubSeq(s, p, Len(s))>>
    ELSE IF q + 2 <= Len(s) /\ SubSeq(s, q, q + 2) = " | "
         THEN <<SubSeq(s, p, q - 1)>> \o SplitBarFrom(s, q + 3, q + 3)
         ELSE SplitBarFrom(s, p, q + 1)

\* the segments of a display text
SegmentsOf(s) == IF s = "No statistics" THEN <<>> ELSE SplitBarFrom(s, 1, 1)

Segments == SegmentsOf(wordCountText)

\* s begins with prefix
StartsWith(s, prefix) ==
    Len(s) >= Len(prefix) /\ SubSeq(s, 1, Len(prefix)) = prefix

IsWordsSegment(seg) == StartsWith(seg, "Words: ")
IsLanguageSegment(seg) == StartsWith(seg, "Chinese") \/ StartsWith(seg, "English")
IsWordGroupSegment(seg) == IsWordsSegment(seg) \/ IsLanguageSegment(seg)

\* the elements of seq that are present
Present(cond, seg) == IF cond THEN <<seg>> ELSE <<>>

\* the language segments the claim describes for a hidden total
LanguageSegments ==
    IF FlagOn("showWordCountBreakdown")
    THEN Present(FlagOn("showChineseWordCount"), ChineseBreakdown)
         \o Present(FlagOn("showEnglishWordCount"), EnglishBreakdown)
    ELSE Present(FlagOn("showChineseWordCount"),
                 "Chinese Words: " \o ToString(counts.chineseChars))
         \o Present(FlagOn("showEnglishWordCount"),
                    "English Words: " \o ToString(counts.englishWords))

\* C11: with showTotalWordCount off there is no 'Words:' segment, and the
\* segments for the languages are one per enabled sub-flag, labelled
\* 'Chinese: n' / 'English: n' when showWordCountBreakdown is on and
\* 'Chinese Words: n' / 'English Words: n' when it is off.
FormatHiddenTotal ==
    ~FlagOn("showTotalWordCount") =>
        /\ SelectSeq(Segments, IsWordsSegment) = <<>>
        /\ SelectSeq(Segments, IsLanguageSegment) = LanguageSegments

FormatHiddenTotalWitness ==
    /\ ~FlagOn("showTotalWordCount")
    /\ ~FlagOn("showWordCountBreakdown")
    /\ ~FlagOn("showChineseWordCount")
    /\ counts.englishWords = 1
    /\ wordCountText = "English Words: 1 | Characters: 4"

\* no segment is produced by the flags
NoSegment ==
    /\ ~FlagOn("showCharacterCount")
    /\ ~FlagOn("showLineCount")
    /\ ~FlagOn("showParagraphCount")
    /\ ~FlagOn("showTotalWordCount")
    /\ ~FlagOn("showChineseWordCount")
    /\ ~FlagOn("showEnglishWordCount")

\* C12: with the seven flags explicitly false the display text is
\* 'No statistics', and it is 'No statistics' exactly when no segment is
\* produced.
FormatNoStatistics ==
    /\ (DOMAIN options = Flags /\ \A f \in Flags : ~options[f]) =>
           wordCountText = "No statistics"
    /\ wordCountText = "No statistics" <=> NoSegment

FormatNoStatisticsWitness ==
    /\ DOMAIN options = Flags
    /\ \A f \in Flags : ~options[f]
    /\ counts.words = 3
    /\ wordCountText = "No statistics"

\* the segments after the word group that the claim describes
OtherSegments ==
    Present(FlagOn("showCharacterCount"),
            "Characters: " \o ToString(counts.characters))
    \o Present(FlagOn("showLineCount"), "Lines: " \o ToString(counts.lines))
    \o Present(FlagOn("showParagraphCount"),
               "Paragraphs: " \o ToString(counts.paragraphs))

\* the display text the spec describes for the flags read with the
\* defaults of FlagOn
DescribedText ==
    LET segs == (IF FlagOn("showTotalWordCount") THEN <<WordsSegment>>
                 ELSE LanguageSegments) \o OtherSegments
    IN  IF segs = <<>> THEN "No statistics" ELSE Join(segs, " | ")

\* C13: a flag the options record lacks is read as true for the five
\* word and character flags and as false for showLineCount and
\* showParagraphCount; with an empty record the display text is
\* 'Words: N (Chinese: c, English: e) | Characters: k'.
FormatDefaults ==
    /\ wordCountText = DescribedText
    /\ options = <<>> =>
           wordCountText =
               "Words: " \o ToString(counts.words)
               \o " (Chinese: " \o ToString(counts.chineseChars)
               \o ", English: " \o ToString(counts.englishWords)
               \o ") | Characters: " \o ToString(counts.characters)

FormatDefaultsWitness ==
    /\ options = <<>>
    /\ wordCountText = "Words: 3 (Chinese: 2, English: 1) | Characters: 4"

\* C14: the segments are the word segments followed by 'Characters: n' iff
\* showCharacterCount, 'Lines: n' iff showLineCount and 'Paragraphs: n' iff
\* showParagraphCount, in that order.
FormatSegmentOrder ==
    Segments = SelectSeq(Segments, IsWordGroupSegment) \o OtherSegments

FormatSegmentOrderWitness ==
    /\ FlagOn("showLineCount")
    /\ FlagOn("showParagraphCount")
    /\ wordCountText =
           "Words: 5 (Chinese: 0, English: 5) | Characters: 12 | Lines: 3 | Paragraphs: 2"

\* the flag as formatWordCount reads it from the record o
FlagOnIn(o, flag) ==
    IF flag \in {"showLineCount", "showParagraphCount"}
    THEN flag \in DOMAIN o /\ o[flag]
    ELSE flag \notin DOMAIN o \/ o[flag]

\* the step switches showWordCountBreakdown and nothing else, with the
\* total shown
BreakdownSwitched ==
    /\ counts' = counts
    /\ FlagOn("showTotalWordCount")
    /\ FlagOnIn(options', "showWordCountBreakdown")
           # FlagOn("showWordCountBreakdown")
    /\ \A f \in Flags \ {"showWordCountBreakdown"} :
           FlagOnIn(options', f) = FlagOn(f)

\* with is plain, or plain followed by a parenthesised breakdown
OnlyBreakdownAppended(plain, with) ==
    \/ with = plain
    \/ /\ StartsWith(with, plain \o " (")
       /\ SubSeq(with, Len(with), Len(with)) = ")"

\* C15: switching showWordCountBreakdown with showTotalWordCount on and
\* the other flags and the counts unchanged leaves the segments after the
\* first unchanged and the first segment 'Words: N', with or without a
\* parenthesised breakdown appended.
FormatBreakdownSwitch ==
    [][BreakdownSwitched =>
          LET before == SegmentsOf(wordCountText)
              after == SegmentsOf(wordCountText')
              plain == "Words: " \o ToString(counts.words)
          IN  /\ Tail(after) = Tail(before)
              /\ IF FlagOn("showWordCountBreakdown")
                 THEN after[1] = plain /\ OnlyBreakdownAppended(plain, before[1])
                 ELSE before[1] = plain /\ OnlyBreakdownAppended(plain, after[1])
      ]_vars

FormatBreakdownSwitchWitness ==
    /\ DOMAIN options = Flags
    /\ ~options["showWordCountBreakdown"]
    /\ options["showTotalWordCount"]
    /\ options["showLineCount"]
    /\ wordCountText = "Words: 3 | Characters: 4 | Lines: 1"

\* ------------------------------------------------------------------------
\* Properties of parseHeadings
\* ------------------------------------------------------------------------
\* the lines of the document
DocLines == SplitNewline(text)

\* the number of '#' the line starts with, and the line after them
LeadingHashes(line) == HashRunEnd(line, 1) - 1
AfterHashes(line) == SubSeq(line, LeadingHashes(line) + 1, Len(line))

\* s starts with a whitespace character and holds some other text
IsSpaceThenText(s) == s # <<>> /\ IsWhitespace(s[1]) /\ Trim(s) # <<>>

\* 1 to 6 '#', then whitespace, then non-empty text
IsATXLine(line) ==
    LeadingHashes(line) \in 1..6 /\ IsSpaceThenText(AfterHashes(line))

\* 7 or more leading '#', or no whitespace after the '#' run
IsOverlongOrUnspacedATX(line) ==
    \/ LeadingHashes(line) >= 7
    \/ /\ LeadingHashes(line) >= 1
       /\ AfterHashes(line) = <<>> \/ ~IsWhitespace(AfterHashes(line)[1])

\* the outline holds the heading h
HasHeading(h) == \E k \in DOMAIN outlineItems : outlineItems[k] = h

\* the only heading reported at the line number i is the underlined
\* heading whose title is the whole line i
NoHeadingOfItsOwn(i) ==
    \A k \in DOMAIN outlineItems :
        outlineItems[k].line = i => outlineItems[k].text = Trim(DocLines[i])

\* C16: every line made of 1 to 6 '#', whitespace and non-empty text
\* yields a heading whose level is the number of '#', whose text is the
\* remainder trimmed and whose line is the 1-based number of the line; a
\* line with 7 or more leading '#' or with no whitespace after the '#' run
\* yields no ATX heading.
HeadingsATX ==
    \A i \in DOMAIN DocLines :
        LET line == DocLines[i]
        IN  /\ IsATXLine(line) =>
                HasHeading([level |-> LeadingHashes(line),
                            text |-> Trim(AfterHashes(line)),
                            line |-> i])
            /\ IsOverlongOrUnspacedATX(line) => NoHeadingOfItsOwn(i)

\* the line is made only of the character c
MadeOnlyOf(line, c) == Len(line) >= 1 /\ \A i \in DOMAIN line : line[i] = c

\* the level of the heading an underline of the character c makes
UnderlineLevel(c) == IF c = "=" THEN 1 ELSE 2

\* C17: a line made only of '=' (only of '-') whose previous line is not
\* blank yields a level-1 (level-2) heading whose text is the previous line
\* trimmed and whose line value is the 0-based index of the underline, the
\* 1-based number of the title line; the first line of the text and an
\* underline after a blank line yield no such heading.
HeadingsSetext ==
    \A i \in DOMAIN DocLines : \A c \in {"=", "-"} :
        MadeOnlyOf(DocLines[i], c) =>
            IF i > 1 /\ Trim(DocLines[i - 1]) # <<>>
            THEN HasHeading([level |-> UnderlineLevel(c),
                             text |-> Trim(DocLines[i - 1]),
                             line |-> i - 1])
            ELSE \A k \in DOMAIN outlineItems : outlineItems[k].line # i - 1

\* a title and its underline, and the heading reported at the title's line
HeadingsSetextWitness ==
    /\ text = Str("Title\n=====\n---")
    /\ outlineItems = << [level |-> 1, text |-> Str("Title"), line |-> 1],
                         [level |-> 2, text |-> Str("====="), line |-> 2] >>

\* the index of the '.' that follows a run of digits or one uppercase
\* letter at the start of the line, or 0
NumberPrefixEnd(line) ==
    LET d == DigitRunEnd(line, 1)
        p == IF d > 1 THEN d
             ELSE IF line # <<>> /\ IsUpper(line[1]) THEN 2 ELSE 0
    IN  IF p # 0 /\ p <= Len(line) /\ line[p] = "." THEN p ELSE 0

\* the line after the '.' of its number
AfterNumber(line) == SubSeq(line, NumberPrefixEnd(line) + 1, Len(line))

\* digits or one uppercase letter, then '.', whitespace and non-empty text
IsNumberedLine(line) ==
    NumberPrefixEnd(line) # 0 /\ IsSpaceThenText(AfterNumber(line))

\* C18: a line that starts with a run of digits or one uppercase letter,
\* followed by '.', whitespace and non-empty text, yields a level-3 heading
\* (text the remainder trimmed, line the 1-based line number) if and only
\* if the whole line is shorter than 100 characters; such a line of 100 or
\* more characters yields no heading.
HeadingsNumbered ==
    \A i \in DOMAIN DocLines :
        LET line == DocLines[i]
        IN  IsNumberedLine(line) =>
                IF Len(line) < NumberedMaxLength
                THEN HasHeading([level |-> 3, text |-> Trim(AfterNumber(line)),
                                 line |-> i])
                ELSE NoHeadingOfItsOwn(i)

\* the line i may have produced the heading h: h is reported at i, or i is
\* an underline and h is reported at the line before
MayProduce(i, h) ==
    \/ h.line = i
    \/ /\ h.line = i - 1
       /\ MadeOnlyOf(DocLines[i], "=") \/ MadeOnlyOf(DocLines[i], "-")

\* the line has the beginning of one of the three heading forms
LooksLikeHeading(line) ==
    \/ LeadingHashes(line) >= 1
    \/ MadeOnlyOf(line, "=") \/ MadeOnlyOf(line, "-")
    \/ NumberPrefixEnd(line) # 0

\* C19: the headings come from distinct lines, in the order of these lines
\* (at most one heading per line, in document order); every heading has a
\* level in 1..6 and a line value between 1 and the number of lines, the
\* line values never decrease along the output, and a text with no heading
\* line yields the empty sequence.
HeadingsInDocumentOrder ==
    /\ \E src \in [DOMAIN outlineItems -> DOMAIN DocLines] :
           /\ \A k \in DOMAIN outlineItems : MayProduce(src[k], outlineItems[k])
           /\ \A j, k \in DOMAIN outlineItems : j < k => src[j] < src[k]
    /\ \A k \in DOMAIN outlineItems :
           /\ outlineItems[k].level \in 1..6
           /\ outlineItems[k].line \in 1..Len(DocLines)
    /\ \A j, k \in DOMAIN outlineItems :
           j < k => outlineItems[j].line <= outlineItems[k].line
    /\ (\A i \in DOMAIN DocLines : ~LooksLikeHeading(DocLines[i])) =>
           outlineItems = <<>>

\* a heading and the underline below it give two headings with the same
\* line value, followed by the heading of the third line
HeadingsInDocumentOrderWitness ==
    /\ text = Str("# H1\n=====\n1. Intro")
    /\ outlineItems = << [level |-> 1, text |-> Str("H1"), line |-> 1],
                         [level |-> 1, text |-> Str("# H1"), line |-> 1],
                         [level |-> 3, text |-> Str("Intro"), line |-> 3] >>

\* ------------------------------------------------------------------------
\* Properties of the lists of renderMarkdown
\* ------------------------------------------------------------------------
\* the line i of the argument is inside a code block: an odd number of
\* fence lines precede it
InsideCode(i) ==
    Cardinality({j \in 1..(i - 1) : IsFence(Trim(markdown[j]))}) % 2 = 1

\* the kind of list the line i is an item of: "ol", "ul" or "none"
ListKind(i) ==
    IF i \notin DOMAIN markdown THEN "none"
    ELSE IF IsFence(Trim(markdown[i])) \/ InsideCode(i) THEN "none"
    ELSE IF NumberedMatch(Trim(markdown[i])) # Null THEN "ol"
    ELSE IF BulletMatch(Trim(markdown[i])) # Null THEN "ul"
    ELSE "none"

\* the text of the item of the line i
ListItemText(i) ==
    IF ListKind(i) = "ol" THEN NumberedMatch(Trim(markdown[i]))[1]
    ELSE BulletMatch(Trim(markdown[i]))[1]

\* the line i begins a maximal run of list items of one kind
IsListRunStart(i) == ListKind(i) # "none" /\ ListKind(i - 1) # ListKind(i)

\* the last line of the run that the line i begins
ListRunLast(i) ==
    CHOOSE j \in i..Len(markdown) :
        /\ \A k \in i..j : ListKind(k) = ListKind(i)
        /\ ListKind(j + 1) # ListKind(i)

\* the one list element of the run that the line i begins
ListElement(i) ==
    << Str("<" \o ListKind(i) \o ">") >>
    \o [k \in 1..(ListRunLast(i) - i + 1) |->
           Str("  <li>") \o processInline(ListItemText(i + k - 1), FALSE)
           \o Str("</li>")]
    \o << Str("</" \o ListKind(i) \o ">") >>

\* the output line belongs to a list element
IsListOutput(l) ==
    \/ l \in {Str("<ul>"), Str("</ul>"), Str("<ol>"), Str("</ol>")}
    \/ MatchesAt(l, 1, Str("  <li>"))

\* C20: in the returned output every maximal run of consecutive list-item
\* lines of one kind is exactly one <ul> or <ol> element with one <li> per
\* item in source order: the list lines of the output are the elements of
\* the runs, in the order of the runs, a change of kind beginning a new
\* element and the run that ends the input being written too.
RenderListRuns ==
    returned =>
        SelectSeq(result, IsListOutput) =
            Concat([i \in DOMAIN markdown |->
                       IF IsListRunStart(i) THEN ListElement(i) ELSE <<>>])

\* ------------------------------------------------------------------------
\* Properties of the code blocks of renderMarkdown
\* ------------------------------------------------------------------------
\* the fence lines read so far
FenceLines == {i \in DOMAIN markdown : IsFence(Trim(markdown[i]))}

\* the line i is an opening fence: an even number of fence lines precede it
IsOpeningFence(i) ==
    i \in FenceLines /\ Cardinality({j \in FenceLines : j < i}) % 2 = 0

\* the fence line that closes the opening fence i, or 0
ClosingFence(i) ==
    IF \E j \in FenceLines : j > i
    THEN MinIndex({j \in FenceLines : j > i})
    ELSE 0

\* the block of the lines i..j of the argument: the lines joined by
\* newlines and escaped, nothing else done to them
CodeBlockOf(i, j) ==
    Str("<pre><code>")
    \o escapeHtml(JoinChars(SubSeq(markdown, i, j), <<"\n">>))
    \o Str("</code></pre>")

\* C21: the lines between an opening fence and its closing fence are
\* emitted as one <pre><code> block that holds exactly these lines, joined
\* by newlines and HTML-escaped, the markers of the inline transform and of
\* the blocks staying literal.
RenderCodeBlock ==
    \A i \in DOMAIN markdown :
        LET j == ClosingFence(i)
        IN  IsOpeningFence(i) /\ j > i + 1 =>
                \E k \in DOMAIN result : result[k] = CodeBlockOf(i + 1, j - 1)

\* a code block of a heading line and a line of emphasis markers
RenderCodeBlockWitness ==
    /\ returned
    /\ markdown = << <<BT, BT, BT>>, Str("# a<b"),
                     Str("**s** _e_ ") \o <<BT>> \o Str("c<d") \o <<BT>>,
                     <<BT, BT, BT>> >>
    /\ html = Str("<pre><code># a&lt;b\n**s** _e_ ") \o <<BT>>
              \o Str("c&lt;d") \o <<BT>> \o Str("</code></pre>")

\* C22: an opening fence without a closing fence takes every following
\* line up to the end of the input as code, and the returned output ends
\* with the <pre><code> block of these lines.
RenderUnterminatedFence ==
    returned /\ FenceLinesRead % 2 = 1 =>
        LET i == CHOOSE f \in FenceLines : \A j \in FenceLines : j <= f
        IN  i < Len(markdown) =>
                /\ result # <<>>
                /\ result[Len(result)] = CodeBlockOf(i + 1, Len(markdown))
                /\ EndsAt(html, Len(html), CodeBlockOf(i + 1, Len(markdown)))

\* a list, then a fence that is never closed, a heading line and an empty
\* line
RenderUnterminatedFenceWitness ==
    /\ returned
    /\ markdown = << Str("- x & y"), <<BT, BT, BT>>, Str("# a<b"), <<>> >>
    /\ html = Str("<ul>\n  <li>x &amp; y</li>\n</ul>\n<pre><code># a&lt;b\n</code></pre>")

\* ------------------------------------------------------------------------
\* Properties of the line loop of renderMarkdown
\* ------------------------------------------------------------------------
\* the step reads one more line of the argument
ReadsLine == ~returned /\ ~returned' /\ Len(markdown') = Len(markdown) + 1

\* the line that the step reads, and the line trimmed
LineRead == markdown'[Len(markdown')]
TrimmedRead == Trim(LineRead)

\* the line that the step reads is outside the code blocks: an even number
\* of fence lines precede it and it is no fence
ReadsOutsideCode == FenceLinesRead % 2 = 0 /\ ~IsFence(TrimmedRead)

\* the kind of list item a trimmed line is: "ol", "ul" or "none"
ItemKind(trimmed) ==
    IF NumberedMatch(trimmed) # Null THEN "ol"
    ELSE IF BulletMatch(trimmed) # Null THEN "ul"
    ELSE "none"

\* the HTML of the list that is pending before the step
PendingList ==
    IF inList /\ listItems # <<>>
    THEN << Str("<" \o listType \o ">") >>
         \o [k \in DOMAIN listItems |->
                Str("  <li>") \o processInline(listItems[k], FALSE)
                \o Str("</li>")]
         \o << Str("</" \o listType \o ">") >>
    ELSE <<>>

\* s begins with the sequence start
BeginsWith(s, start) ==
    Len(start) <= Len(s) /\ SubSeq(s, 1, Len(start)) = start

\* C23: every line that is no list item (fence, heading, rule, blockquote,
\* blank line, paragraph) closes the open list before it emits its own
\* output: the output grows at its end only, the HTML of the pending list
\* is written first and no list stays open; a blank line then emits one
\* empty output line.
RenderClosesListFirst ==
    [][ReadsLine =>
           /\ BeginsWith(result', result)
           /\ (IsFence(TrimmedRead)
               \/ (ReadsOutsideCode /\ ItemKind(TrimmedRead) = "none")) =>
                  /\ BeginsWith(result', result \o PendingList)
                  /\ ~inList' /\ listItems' = <<>>
           /\ ReadsOutsideCode /\ TrimmedRead = <<>> =>
                  result' = result \o PendingList \o << <<>> >>]_vars

\* the trimmed line begins with 1 to 6 '#' and a whitespace character
IsHeadingLine(trimmed) ==
    /\ LeadingHashes(trimmed) \in 1..6
    /\ LeadingHashes(trimmed) < Len(trimmed)
    /\ IsWhitespace(trimmed[LeadingHashes(trimmed) + 1])

\* the text of a heading line: what follows the '#' and the whitespace
HeadingText(trimmed) ==
    SubSeq(trimmed, WhitespaceRunEnd(trimmed, LeadingHashes(trimmed) + 1),
           Len(trimmed))

\* the element of the name tag around the inline transform of t
Element(tag, t) ==
    Str("<" \o tag \o ">") \o processInline(t, FALSE) \o Str("</" \o tag \o ">")

\* the output of a line outside the code blocks that is no list item, by
\* the first rule that matches
BlockOf(trimmed) ==
    IF IsHeadingLine(trimmed)
    THEN Element("h" \o ToString(LeadingHashes(trimmed)), HeadingText(trimmed))
    ELSE IF trimmed \in {Str("---"), Str("***")} THEN Str("<hr>")
    ELSE IF trimmed # <<>> /\ trimmed[1] = ">"
    THEN Element("blockquote", Trim(SubSeq(trimmed, 2, Len(trimmed))))
    ELSE IF trimmed = <<>> THEN <<>>
    ELSE Element("p", trimmed)

\* the trimmed line is a heading, a rule or a blockquote
IsBlockLine(trimmed) ==
    \/ IsHeadingLine(trimmed)
    \/ trimmed \in {Str("---"), Str("***")}
    \/ trimmed # <<>> /\ trimmed[1] = ">"

\* C24: outside the code blocks each line is classified by the first rule
\* that matches, in the order heading, rule, blockquote, list item, blank,
\* paragraph: it emits <hN> with N the number of leading '#', <hr> for
\* '---' or '***', one <blockquote> for each '>' line, an empty line or
\* <p> with the trimmed inline-transformed text, and a list item emits
\* nothing and becomes the last pending item of a list of its kind.
RenderClassifiesLines ==
    [][ReadsLine /\ ReadsOutsideCode =>
           IF ~IsBlockLine(TrimmedRead) /\ ItemKind(TrimmedRead) # "none"
           THEN /\ inList' /\ listType' = ItemKind(TrimmedRead)
                /\ listItems' # <<>>
                /\ listItems'[Len(listItems')] =
                       IF ItemKind(TrimmedRead) = "ol"
                       THEN NumberedMatch(TrimmedRead)[1]
                       ELSE BulletMatch(TrimmedRead)[1]
                /\ \A k \in (Len(result) + 1)..Len(result') :
                       IsListOutput(result'[k])
           ELSE result' = result \o PendingList \o <<BlockOf(TrimmedRead)>>]_vars

\* ------------------------------------------------------------------------
\* Properties of the inline transform
\* ------------------------------------------------------------------------
\* renderMarkdown has returned from a call on one line that is a paragraph
\* made of the characters of InlineAlphabet
IsInlineCall ==
    /\ returned
    /\ Len(markdown) = 1
    /\ markdown[1] # <<>>
    /\ ~IsFence(markdown[1])
    /\ \A i \in DOMAIN markdown[1] : markdown[1][i] \in InlineAlphabet

\* the markers of emphasis and the elements they make
EmphasisMarkers ==
    { [mark |-> Str("**"), tag |-> "strong"],
      [mark |-> Str("__"), tag |-> "strong"],
      [mark |-> Str("*"), tag |-> "em"],
      [mark |-> Str("_"), tag |-> "em"] }

\* s holds no marker of the inline transform
IsMarkerFree(s) == \A i \in DOMAIN s : s[i] \notin {"*", "_", BT}

\* the literal lit occurs in s
Contains(s, lit) == \E k \in DOMAIN s : MatchesAt(s, k, lit)

\* the paragraph of the inline HTML h
Paragraph(h) == Str("<p>") \o h \o Str("</p>")

\* C25: **x** and __x__ become <strong>x</strong>, *x* and _x_ become
\* <em>x</em>: a line made of marker-free text, a marker, marker-free
\* text x, the same marker and marker-free text is rendered with x in the
\* element of the marker and nothing else changed, so the ** of **x** are
\* never taken as italic markers and **x** gives no <em>.
InlineEmphasis ==
    IsInlineCall =>
        \A m \in EmphasisMarkers : \A i, j \in DOMAIN markdown[1] :
               LET line == markdown[1]
                   n == Len(m.mark)
                   before == SubSeq(line, 1, i - 1)
                   body == SubSeq(line, i + n, j - 1)
                   after == SubSeq(line, j + n, Len(line))
               IN  (/\ MatchesAt(line, i, m.mark)
                    /\ j >= i + n + 1
                    /\ MatchesAt(line, j, m.mark)
                    /\ IsMarkerFree(before)
                    /\ IsMarkerFree(body)
                    /\ IsMarkerFree(after))
                   => html = Paragraph(escapeHtml(before)
                                       \o Str("<" \o m.tag \o ">")
                                       \o escapeHtml(body)
                                       \o Str("</" \o m.tag \o ">")
                                       \o escapeHtml(after))

\* bold text after plain text
InlineEmphasisWitness ==
    /\ returned
    /\ markdown = <<Str("x**x**")>>
    /\ html = Str("<p>x<strong>x</strong></p>")

\* C26: code spans are handled before emphasis, so the emphasis markers
\* inside a code span are not touched: for the first pair of backticks of
\* a line, around a non-empty text, the output holds <code>, the escaped
\* source text between the backticks and </code>.
InlineCodeSpans ==
    IsInlineCall =>
        \A i, j \in DOMAIN markdown[1] :
            LET line == markdown[1]
                body == SubSeq(line, i + 1, j - 1)
            IN  (/\ line[i] = BT /\ line[j] = BT /\ j >= i + 2
                 /\ \A k \in 1..(j - 1) : k # i => line[k] # BT)
                => Contains(html, Str("<code>") \o escapeHtml(body)
                                  \o Str("</code>"))

\* the positions of the character c in s
Positions(s, c) == {i \in DOMAIN s : s[i] = c}

\* the character c occurs in s in one run only, so no marker made of c has
\* a closing partner
IsUnmatched(s, c) ==
    /\ Positions(s, c) # {}
    /\ \A i, j \in Positions(s, c) : \A k \in i..j : s[k] = c

\* C29: an emphasis or code marker that has no closing partner is left in
\* the output as literal characters and produces no <strong>, <em> or
\* <code> tag.
InlineUnmatchedMarkers ==
    IsInlineCall =>
        LET line == markdown[1]
        IN  /\ \A c \in {"*", "_", BT} :
                   IsUnmatched(line, c) =>
                       Cardinality(Positions(html, c))
                           = Cardinality(Positions(line, c))
            /\ \A c \in {"*", "_"} :
                   (/\ IsUnmatched(line, c)
                    /\ Positions(line, IF c = "*" THEN "_" ELSE "*") = {})
                   => ~Contains(html, Str("<strong>")) /\ ~Contains(html, Str("<em>"))
            /\ IsUnmatched(line, BT) => ~Contains(html, Str("<code>"))

\* an opening ** , an opening _ and a backtick, none of them closed
InlineUnmatchedMarkersWitness ==
    /\ returned
    /\ markdown = <<Str("**x_") \o <<BT>>>>
    /\ html = Str("<p>**x_") \o <<BT>> \o Str("</p>")

\* the line i of the returned call is outside the code blocks
IsOutsideCode(i) == ~IsFence(Trim(markdown[i])) /\ ~InsideCode(i)

\* C27: a literal <u>text</u> pair of the source is passed through as an
\* underline element: the output of a line outside the code blocks that
\* holds <u>t</u> holds the unescaped <u>t</u>.
InlineUnderline ==
    returned =>
        \A i \in DOMAIN markdown :
            IsOutsideCode(i) /\ Contains(markdown[i], Str("<u>t</u>")) =>
                Contains(html, Str("<u>t</u>"))

\* the first [label](url) of the line: <<label, url>>, or Null
FirstLink(line) ==
    IF Positions(line, "[") = {} THEN Null
    ELSE LET i == MinIndex(Positions(line, "["))
             e1 == RunEnd(line, i + 1, "]")
             e2 == RunEnd(line, e1 + 2, ")")
         IN  IF /\ e1 > i + 1
                /\ MatchesAt(line, e1, Str("]("))
                /\ e2 > e1 + 2
                /\ e2 <= Len(line)
             THEN << <<SubSeq(line, i + 1, e1 - 1), SubSeq(line, e1 + 2, e2 - 1)>> >>
             ELSE Null

\* C28: every [label](url) is replaced by <a href="url">label</a>: the
\* output of a line outside the code blocks holds, for the first link of
\* the line, the <a> element of its escaped url and label.
InlineLinks ==
    returned =>
        \A i \in DOMAIN markdown :
            IsOutsideCode(i) /\ FirstLink(markdown[i]) # Null =>
                LET link == FirstLink(markdown[i])[1]
                IN  Contains(html, Str("<a href=\"") \o escapeHtml(link[2])
                                   \o Str("\">") \o escapeHtml(link[1])
                                   \o Str("</a>"))

\* ------------------------------------------------------------------------
\* Properties of repeated calls
\* ------------------------------------------------------------------------
\* the local variables of renderMarkdown have their declared values
IsFreshRenderState == RenderState = FreshRenderState

\* the results on display are those of the functions on the present
\* arguments alone
ResultsOfArguments ==
    /\ counts = countWords(text)
    /\ wordCountText = formatWordCount(counts, options)
    /\ outlineItems = parseHeadings(text)
    /\ returned => html = renderMarkdown(markdown)
    /\ markdown = <<>> /\ ~returned => IsFreshRenderState

\* C30: countWords, formatWordCount, parseHeadings and renderMarkdown keep
\* no state between calls: whatever calls came before, every result is
\* the value of the function on the arguments of the call, every call of
\* renderMarkdown starts from its declared local variables, and a change
\* of the content, which calls formatWordCount, leaves the options record
\* as it was.
CallsIndependent ==
    []ResultsOfArguments /\ [][text' # text => options' = options]_vars

\* a second call of renderMarkdown, made after the content has changed,
\* that returns a list
CallsIndependentWitness ==
    /\ renderCalls = 1
    /\ returned
    /\ text # <<>>
    /\ markdown = << Str("- x & y"), Str("- x & y") >>
    /\ html = Str("<ul>\n  <li>x &amp; y</li>\n  <li>x &amp; y</li>\n</ul>")

\* ------------------------------------------------------------------------
\* Properties of the four functions together
\* ------------------------------------------------------------------------
\* the statistics object of countWords: six natural numbers
IsStatistics(c) ==
    /\ DOMAIN c = {"words", "characters", "chineseChars", "englishWords",
                   "lines", "paragraphs"}
    /\ \A field \in DOMAIN c : c[field] \in Nat

\* an entry of the array of parseHeadings: a level, a text and the number
\* of a line of the content
IsHeadingEntry(h, content) ==
    /\ DOMAIN h = {"level", "text", "line"}
    /\ h.level \in 1..6
    /\ h.text \in Seq(STRING)
    /\ h.line \in 1..Len(SplitNewline(content))

\* C31: countWords, formatWordCount, parseHeadings and renderMarkdown are
\* total: on every content (empty, whitespace only, with an unterminated
\* fence or unmatched markers) and every options record each one returns a
\* value of its ordinary shape, the six numbers, a string, a list of
\* headings of the lines of the content, a string of html, and none
\* signals an error.
FunctionsTotal ==
    /\ IsStatistics(counts)
    /\ wordCountText \in STRING
    /\ outlineItems \in Seq([level : 1..6, text : Seq(STRING), line : Nat])
    /\ \A i \in DOMAIN outlineItems : IsHeadingEntry(outlineItems[i], text)
    /\ html \in Seq(STRING)

\* the content is a fence that is never closed and every flag is off: the
\* statistics, the text of no statistics, no heading and an empty code block
FunctionsTotalWitness ==
    /\ text = <<BT, BT, BT, "\n">>
    /\ options = [flag \in Flags |-> FALSE]
    /\ counts.words = 1
    /\ wordCountText = "No statistics"
    /\ outlineItems = <<>>
    /\ html = Str("<pre><code></code></pre>")

\* ------------------------------------------------------------------------
\* Properties of auto-save
\* ------------------------------------------------------------------------
\* the timer ticks, save-file returns and get-settings returns
FairAutoSave ==
    /\ SpecAutoSave
    /\ WF_vars(AutoSaveTick)
    /\ WF_vars(SaveFileReturns)
    /\ WF_vars(StartAutoSaveResumes)

\* the editor shows the active tab, which has a file path
FileTabShown ==
    /\ HasActiveTab
    /\ ~ActiveTab.isSettings
    /\ ActiveTab.filePath # NoPath
    /\ editorModel = activeTabId

\* the content of the active tab is not the content of its file
Unsaved == FileTabShown /\ text # files[ActiveTab.filePath]

\* C32: while auto-save is enabled and the writes succeed, whenever the
\* active tab has a file path and its content differs from what was last
\* read from or written to the file, a later tick writes the content to the
\* file (unless the content is changed back or the tab is left first); so
\* also for an edit made before the tab was left and entered again.
AutoSaveWritesUnsaved == (autoSaveEnabled /\ Unsaved) ~> ~Unsaved

\* save-file returns to the handler that invoked it
SaveFileCompletes == saveFileCalls # <<>> /\ saveFileCalls' = Tail(saveFileCalls)

\* C33: when the active tab has changed while a write of auto-save was in
\* flight, the completion records the written content as last saved for
\* the tab whose file was written and leaves the lastSavedContent of the
\* tab that is active now as it was.
AutoSaveCompletionKeepsTab ==
    [][(/\ SaveFileCompletes
        /\ Head(saveFileCalls).auto
        /\ Head(saveFileCalls).tabId # activeTabId)
       => /\ LastSaved(lastSavedContent', Head(saveFileCalls).tabId)
               = Head(saveFileCalls).content
          /\ LastSaved(lastSavedContent', activeTabId)
               = LastSaved(lastSavedContent, activeTabId)]_vars

\* C34: whenever autoSaveEnabled is false and no call of startAutoSave is
\* waiting for its settings, no auto-save timer is running; disabling
\* auto-save while startAutoSave waits leaves no timer behind.
NoTimerWhileDisabled ==
    (~autoSaveEnabled /\ startAutoSaveCalls = 0) => timers = {}

\* C35: at any time at most one auto-save timer is running, and every
\* timer that is running is the one autoSaveInterval refers to.
OneTimerReferenced ==
    /\ Cardinality(timers) <= 1
    /\ timers \subseteq {autoSaveInterval}

\* the timer callback invokes save-file
AutoSaveWrites ==
    /\ Len(saveFileCalls') = Len(saveFileCalls) + 1
    /\ saveFileCalls'[Len(saveFileCalls')].auto

\* C36: a tick of the auto-save timer invokes save-file only when there is
\* an active tab with a file path whose content differs from its
\* lastSavedContent; an untitled tab and the settings tab are never
\* written by auto-save.
AutoSaveWritesFileTabsOnly ==
    [][AutoSaveWrites
       => /\ HasActiveTab
          /\ ActiveTab.filePath # NoPath
          /\ ~ActiveTab.isSettings
          /\ text # LastSaved(lastSavedContent, activeTabId)]_vars

\* ------------------------------------------------------------------------
\* Properties of the tabs
\* ------------------------------------------------------------------------
\* C37: whatever tabs were created, opened, restored, saved under a name,
\* switched and closed, no two open tabs have the same file path (other
\* than none): a file that is open already is activated, not opened again.
NoDuplicatePaths ==
    \A i, j \in DOMAIN tabs :
        (i # j /\ tabs[i].filePath # NoPath)
            => tabs[i].filePath # tabs[j].filePath

\* ------------------------------------------------------------------------
\* Properties of the settings
\* ------------------------------------------------------------------------
\* C38: whenever no settings tab is open (settingsTabId is null),
\* currentSettings is null, so that updateWordCount takes the options from
\* the settings on disk: after startup, after Save, after Cancel and after
\* the settings tab is closed.
NoPreviewWithoutSettingsTab == settingsTabId = 0 => currentSettings = Null

\* activeTabId is null when there is no tab, and the id of a tab otherwise
ActiveTabPresent ==
    /\ activeTabId = 0 <=> tabs = <<>>
    /\ activeTabId # 0 => TabIndex(tabs, activeTabId) # 0

\* the step removes the active tab from the list
ClosesActiveTab ==
    /\ HasActiveTab
    /\ TabIndex(tabs', activeTabId) = 0
    /\ Len(tabs') = Len(tabs) - 1

\* the tab at the index of the closed tab is active, the last tab if the
\* closed tab was the last, none if no tab is left
NeighbourActivated ==
    LET i == TabIndex(tabs, activeTabId)
    IN  IF tabs' = <<>> THEN activeTabId' = 0
        ELSE activeTabId' = tabs'[IF i < Len(tabs') THEN i ELSE Len(tabs')].id

\* C39: once the editor is initialised, activeTabId is null exactly when
\* the tab list is empty and is the id of a tab of the list otherwise, and
\* every step that closes the active tab activates the tab that takes its
\* index, or the new last tab if it was the last.
ActiveTabFollowsClosing ==
    []ActiveTabPresent /\ [][ClosesActiveTab => NeighbourActivated]_vars

\* C39 as amended: activeTabId is null exactly when the tab list is empty
\* and is the id of a tab of the list otherwise; closeTab on the active
\* tab activates the tab that takes its index, or the new last tab if it
\* was the last, while closeSettingsTab (Save and Cancel of the settings
\* form) activates the first tab of the list.
ActiveTabFollowsCloseTab ==
    /\ []ActiveTabPresent
    /\ [][(ClosesActiveTab /\ ~CancelSettings) => NeighbourActivated]_vars
    /\ [][CancelSettings => activeTabId' = tabs'[1].id]_vars

\* the settings tab, opened as the third tab, has been closed and the
\* first of the two tabs left is active
ActiveTabFollowsCloseTabWitness ==
    /\ Len(tabs) = 2
    /\ tabs[1].id = 1
    /\ tabs[2].id = 2
    /\ tabIdCounter = 3
    /\ formLoads = 1
    /\ settingsTabId = 0
    /\ activeTabId = 1
    /\ editorModel = 1

\* the tabs of ts that have no file and are not the settings tab
Untitled(ts) ==
    {i \in DOMAIN ts : ts[i].filePath = NoPath /\ ~ts[i].isSettings}

\* the numbers the untitled tabs of ts carry, 0 for the title 'New Tab'
UntitledNumbers(ts) == {ts[i].newTabNumber : i \in Untitled(ts)}

\* the titles of the untitled tabs differ: at most one has no number, the
\* numbers are 2 or more and differ
UntitledTitlesDistinct ==
    /\ \A i, j \in Untitled(tabs) :
           i # j => tabs[i].newTabNumber # tabs[j].newTabNumber
    /\ \A i \in Untitled(tabs) :
           tabs[i].newTabNumber # 0 => tabs[i].newTabNumber >= 2

\* the step adds an untitled tab while a tab 'New Tab' is open
AddsUntitledTab ==
    /\ Len(tabs') = Len(tabs) + 1
    /\ SubSeq(tabs', 1, Len(tabs)) = tabs
    /\ Len(tabs') \in Untitled(tabs')
    /\ 0 \in UntitledNumbers(tabs)

\* the number of the tab added is the smallest from 2 on that no untitled
\* tab carries
TakesSmallestNumber ==
    LET n == tabs'[Len(tabs')].newTabNumber
    IN  /\ n >= 2
        /\ n \notin UntitledNumbers(tabs)
        /\ \A m \in 2..(n - 1) : m \in UntitledNumbers(tabs)

\* C40: whatever tabs were created and closed, the titles of the untitled
\* tabs are pairwise distinct: at most one is 'New Tab' without a number,
\* the numbered ones carry pairwise distinct numbers of 2 or more, and an
\* untitled tab created while 'New Tab' is open takes the smallest number
\* from 2 on that is not in use.
UntitledTitles ==
    []UntitledTitlesDistinct /\ [][AddsUntitledTab => TakesSmallestNumber]_vars

\* 'New Tab 2' has been closed and the untitled tab created after it is
\* 'New Tab 2' again
UntitledTitlesWitness ==
    /\ Len(tabs) = 2
    /\ Untitled(tabs) = {1, 2}
    /\ tabs[1].id = 1 /\ tabs[1].newTabNumber = 0
    /\ tabs[2].id = 3 /\ tabs[2].newTabNumber = 2

====
